---------------------------- MODULE Spec2Model ----------------------------
(***************************************************************************)
(* Resume extraction pipeline of ScholarHunt (backend resumeParser):       *)
(* parseResume, getAIClients, extractWithGemini, extractWithOpenAI and     *)
(* extractWithRegex, as found in src/backend/routes/upload.js.             *)
(*                                                                         *)
(* Text is a sequence of one-character strings, so that toLowerCase,       *)
(* includes, split, trim, slice and the regular expressions are computed   *)
(* character by character.  JavaScript values that come out of JSON.parse  *)
(* are tagged records (JsValue), so that the || and Array.isArray tests of *)
(* the adapters are computed on values of any type.                        *)
(*                                                                         *)
(* One action is one run of JavaScript between two awaits: it handles the  *)
(* event that resumes the async function and runs to the next await, to    *)
(* the return or to the throw.                                             *)
(*                                                                         *)
(* Provider clients and decoders are taken to fail by throwing Error       *)
(* objects (a string message, an optional code).                           *)
(*                                                                         *)
(* Spec is one invocation of parseResume over all inputs and outcomes;     *)
(* ConcSpec is two interleaved invocations in one process; FairSpec is one *)
(* invocation whose awaited promises all settle; RegexSpec is a direct     *)
(* call of extractWithRegex, as in the tests.                              *)
(***************************************************************************)
EXTENDS Integers, Sequences, FiniteSets, TLC

\* ------------------------------------------------------------------ bounds
\* A decoded document is the concatenation of at most MaxFrags fragments.
MaxFrags == 2

\* --------------------------------------------------------------- characters
UpperCase ==
  <<"A","B","C","D","E","F","G","H","I","J","K","L","M",
    "N","O","P","Q","R","S","T","U","V","W","X","Y","Z">>

LowerCase ==
  <<"a","b","c","d","e","f","g","h","i","j","k","l","m",
    "n","o","p","q","r","s","t","u","v","w","x","y","z">>

Digits == {"0","1","2","3","4","5","6","7","8","9"}

\* The en dash U+2013 of the date-range pattern, as one symbol of the alphabet.
EnDash == "endash"

\* The characters of the model's alphabet that \s and trim() treat as white space.
WhiteSpace == {" ", "\n", "\t"}

\* String.prototype.toLowerCase on one character.
ToLowerChar(c) ==
  IF \E i \in 1..26 : UpperCase[i] = c
  THEN LowerCase[CHOOSE i \in 1..26 : UpperCase[i] = c]
  ELSE c

\* String.prototype.toUpperCase on one character.
ToUpperChar(c) ==
  IF \E i \in 1..26 : LowerCase[i] = c
  THEN UpperCase[CHOOSE i \in 1..26 : LowerCase[i] = c]
  ELSE c

\* String.prototype.toLowerCase.
ToLowerCase(s) == SubSeq([i \in 1..Len(s) |-> ToLowerChar(s[i])], 1, Len(s))

\* String.prototype.includes: k occurs in s as a contiguous substring.
Includes(s, k) ==
  \E i \in 1..(Len(s) - Len(k) + 1) : \A j \in 1..Len(k) : s[i + j - 1] = k[j]

\* String.prototype.slice(from, to) with 0-based from and exclusive to.
Slice(s, from, to) ==
  SubSeq(s, from + 1, IF to < Len(s) THEN to ELSE Len(s))

\* String.prototype.substring(0, n).
Substring(s, n) == Slice(s, 0, n)

\* String.prototype.trim: the text from its first to its last character that
\* is no white space.
TrimStart(s) ==
  IF \A i \in 1..Len(s) : s[i] \in WhiteSpace THEN <<>>
  ELSE SubSeq(s, CHOOSE i \in 1..Len(s) :
                   s[i] \notin WhiteSpace /\ \A j \in 1..(i - 1) : s[j] \in WhiteSpace,
              Len(s))

TrimEnd(s) ==
  IF \A i \in 1..Len(s) : s[i] \in WhiteSpace THEN <<>>
  ELSE SubSeq(s, 1, CHOOSE i \in 1..Len(s) :
                      s[i] \notin WhiteSpace
                        /\ \A j \in (i + 1)..Len(s) : s[j] \in WhiteSpace)

Trim(s) == TrimEnd(TrimStart(s))

\* text.replace(/\s+/g, ' '): every maximal run of white space becomes one
\* space, that is: a white space character that follows another one is
\* dropped, and each one that is left becomes a space.
CollapseWhiteSpace(s) ==
  LET marked == [i \in 1..Len(s) |->
                   [c |-> s[i],
                    inRun |-> i > 1 /\ s[i] \in WhiteSpace /\ s[i - 1] \in WhiteSpace]]
      kept == SelectSeq(marked, LAMBDA m : ~ m.inRun)
  IN [i \in 1..Len(kept) |-> IF kept[i].c \in WhiteSpace THEN " " ELSE kept[i].c]

\* parseResume, "Clean text": text.replace(/\s+/g, ' ').trim().
NormalizeText(s) == Trim(CollapseWhiteSpace(s))

\* String.prototype.split('\n').
RECURSIVE SplitLines(_)
SplitLines(s) ==
  IF \E i \in 1..Len(s) : s[i] = "\n"
  THEN LET i == CHOOSE k \in 1..Len(s) :
                  s[k] = "\n" /\ \A m \in 1..(k - 1) : s[m] # "\n"
       IN <<SubSeq(s, 1, i - 1)>> \o SplitLines(SubSeq(s, i + 1, Len(s)))
  ELSE <<s>>

\* ------------------------------------------------------- program constants
\* PreviewLen as short as the preview the upload route sends.
PreviewLen_Route == 500

\* text.slice(0, 2000): length of the text preview.
PreviewLen == 2000

\* company.substring(0, 50).
CompanyMaxLen == 50

\* if (experience.length >= 3) break.
ExperienceCap == 3

\* fields.slice(0, 2).
MaxFields == 2

\* let confidence = 50.
RegexBaseConfidence == 50

\* confidence: parsed.confidence || 70.
DefaultProviderConfidence == 70

\* confidence: 30 of the safe default.
FallbackConfidence == 30

\* extractWithRegex, education level: the four patterns in test order; each
\* pattern is the list of literal strings it accepts (every \.? expanded).
educationPatterns == <<
  [label |-> "PhD", keywords |-> <<
      <<"p","h",".","d">>,
      <<"p","h","d">>,
      <<"d","o","c","t","o","r","a","t","e">>,
      <<"d","o","c","t","o","r"," ","o","f">>>>],
  [label |-> "Master's", keywords |-> <<
      <<"m","a","s","t","e","r">>,
      <<"m",".","s",".","c">>,
      <<"m",".","s","c">>,
      <<"m","s",".","c">>,
      <<"m","s","c">>,
      <<"m",".","a",".">>,
      <<"m","a",".">>,
      <<"m",".","b",".","a">>,
      <<"m",".","b","a">>,
      <<"m","b",".","a">>,
      <<"m","b","a">>>>],
  [label |-> "Bachelor's", keywords |-> <<
      <<"b","a","c","h","e","l","o","r">>,
      <<"b",".","s",".","c">>,
      <<"b",".","s","c">>,
      <<"b","s",".","c">>,
      <<"b","s","c">>,
      <<"b",".","a",".">>,
      <<"b","a",".">>,
      <<"b",".","e","n","g">>,
      <<"b","e","n","g">>>>],
  [label |-> "High School", keywords |-> <<
      <<"h","i","g","h"," ","s","c","h","o","o","l">>,
      <<"s","e","c","o","n","d","a","r","y"," ","s","c","h","o","o","l">>>>]
>>

\* extractWithRegex, fieldKeywords in declaration order.
fieldKeywords == <<
  [label |-> "Computer Science", keywords |-> <<
      <<"c","o","m","p","u","t","e","r"," ","s","c","i","e","n","c","e">>,
      <<"s","o","f","t","w","a","r","e">>,
      <<"p","r","o","g","r","a","m","m","i","n","g">>,
      <<"d","e","v","e","l","o","p","m","e","n","t">>,
      <<"s","o","f","t","w","a","r","e"," ","e","n","g","i","n","e","e","r","i","n","g">>,
      <<"i","n","f","o","r","m","a","t","i","o","n"," ","s","y","s","t","e","m","s">>,
      <<"i","n","f","o","r","m","a","t","i","o","n"," ","t","e","c","h","n","o","l","o","g","y">>,
      <<"c","y","b","e","r","s","e","c","u","r","i","t","y">>,
      <<"c","l","o","u","d"," ","c","o","m","p","u","t","i","n","g">>>>],
  [label |-> "Engineering", keywords |-> <<
      <<"e","n","g","i","n","e","e","r","i","n","g">>,
      <<"e","l","e","c","t","r","i","c","a","l">>,
      <<"m","e","c","h","a","n","i","c","a","l">>,
      <<"c","i","v","i","l">>,
      <<"c","h","e","m","i","c","a","l">>,
      <<"b","i","o","m","e","d","i","c","a","l">>,
      <<"e","n","v","i","r","o","n","m","e","n","t","a","l">>>>],
  [label |-> "Data Science", keywords |-> <<
      <<"d","a","t","a"," ","s","c","i","e","n","c","e">>,
      <<"d","a","t","a"," ","a","n","a","l","y","t","i","c","s">>,
      <<"b","i","g"," ","d","a","t","a">>,
      <<"m","a","c","h","i","n","e"," ","l","e","a","r","n","i","n","g">>,
      <<"a","r","t","i","f","i","c","i","a","l"," ","i","n","t","e","l","l","i","g","e","n","c","e">>,
      <<"a","i">>>>],
  [label |-> "Business", keywords |-> <<
      <<"b","u","s","i","n","e","s","s">>,
      <<"m","a","n","a","g","e","m","e","n","t">>,
      <<"f","i","n","a","n","c","e">>,
      <<"m","a","r","k","e","t","i","n","g">>,
      <<"m","b","a">>,
      <<"e","c","o","n","o","m","i","c","s">>,
      <<"a","c","c","o","u","n","t","i","n","g">>>>],
  [label |-> "Medicine", keywords |-> <<
      <<"m","e","d","i","c","i","n","e">>,
      <<"m","e","d","i","c","a","l">>,
      <<"h","e","a","l","t","h">>,
      <<"n","u","r","s","i","n","g">>,
      <<"p","h","a","r","m","a","c","y">>,
      <<"p","u","b","l","i","c"," ","h","e","a","l","t","h">>>>],
  [label |-> "Science", keywords |-> <<
      <<"p","h","y","s","i","c","s">>,
      <<"c","h","e","m","i","s","t","r","y">>,
      <<"b","i","o","l","o","g","y">>,
      <<"s","c","i","e","n","c","e">>,
      <<"m","a","t","h","e","m","a","t","i","c","s">>,
      <<"s","t","a","t","i","s","t","i","c","s">>>>],
  [label |-> "Arts", keywords |-> <<
      <<"a","r","t","s">>,
      <<"h","i","s","t","o","r","y">>,
      <<"l","i","t","e","r","a","t","u","r","e">>,
      <<"e","n","g","l","i","s","h">>,
      <<"s","o","c","i","o","l","o","g","y">>,
      <<"p","s","y","c","h","o","l","o","g","y">>,
      <<"p","h","i","l","o","s","o","p","h","y">>>>],
  [label |-> "Law", keywords |-> <<
      <<"l","a","w">>,
      <<"l","e","g","a","l">>,
      <<"c","r","i","m","i","n","o","l","o","g","y">>>>]
>>

\* extractWithRegex, countries in declaration order.
countries == <<
  [label |-> "USA", keywords |-> <<
      <<"u","n","i","t","e","d"," ","s","t","a","t","e","s">>,
      <<"u","s","a">>,
      <<"u",".","s",".","a">>,
      <<"n","e","w"," ","y","o","r","k">>,
      <<"c","a","l","i","f","o","r","n","i","a">>,
      <<"t","e","x","a","s">>,
      <<"f","l","o","r","i","d","a">>,
      <<"w","a","s","h","i","n","g","t","o","n">>,
      <<"c","h","i","c","a","g","o">>>>],
  [label |-> "UK", keywords |-> <<
      <<"u","n","i","t","e","d"," ","k","i","n","g","d","o","m">>,
      <<"u","k">>,
      <<"l","o","n","d","o","n">>,
      <<"e","n","g","l","a","n","d">>,
      <<"s","c","o","t","l","a","n","d">>,
      <<"w","a","l","e","s">>,
      <<"m","a","n","c","h","e","s","t","e","r">>,
      <<"b","i","r","m","i","n","g","h","a","m">>>>],
  [label |-> "Canada", keywords |-> <<
      <<"c","a","n","a","d","a">>,
      <<"t","o","r","o","n","t","o">>,
      <<"v","a","n","c","o","u","v","e","r">>,
      <<"m","o","n","t","r","e","a","l">>,
      <<"o","n","t","a","r","i","o">>,
      <<"q","u","e","b","e","c">>>>],
  [label |-> "Australia", keywords |-> <<
      <<"a","u","s","t","r","a","l","i","a">>,
      <<"s","y","d","n","e","y">>,
      <<"m","e","l","b","o","u","r","n","e">>,
      <<"b","r","i","s","b","a","n","e">>,
      <<"p","e","r","t","h">>>>],
  [label |-> "India", keywords |-> <<
      <<"i","n","d","i","a">>,
      <<"d","e","l","h","i">>,
      <<"m","u","m","b","a","i">>,
      <<"b","a","n","g","a","l","o","r","e">>,
      <<"h","y","d","e","r","a","b","a","d">>,
      <<"c","h","e","n","n","a","i">>,
      <<"p","u","n","e">>,
      <<"k","o","l","k","a","t","a">>>>],
  [label |-> "Nigeria", keywords |-> <<
      <<"n","i","g","e","r","i","a">>,
      <<"l","a","g","o","s">>,
      <<"a","b","u","j","a">>,
      <<"k","a","n","o">>,
      <<"i","b","a","d","a","n">>>>],
  [label |-> "Pakistan", keywords |-> <<
      <<"p","a","k","i","s","t","a","n">>,
      <<"l","a","h","o","r","e">>,
      <<"k","a","r","a","c","h","i">>,
      <<"i","s","l","a","m","a","b","a","d">>,
      <<"f","a","i","s","a","l","a","b","a","d">>>>],
  [label |-> "China", keywords |-> <<
      <<"c","h","i","n","a">>,
      <<"b","e","i","j","i","n","g">>,
      <<"s","h","a","n","g","h","a","i">>,
      <<"s","h","e","n","z","h","e","n">>,
      <<"g","u","a","n","g","z","h","o","u">>>>],
  [label |-> "Germany", keywords |-> <<
      <<"g","e","r","m","a","n","y">>,
      <<"b","e","r","l","i","n">>,
      <<"m","u","n","i","c","h">>,
      <<"h","a","m","b","u","r","g">>,
      <<"f","r","a","n","k","f","u","r","t">>>>],
  [label |-> "Netherlands", keywords |-> <<
      <<"n","e","t","h","e","r","l","a","n","d","s">>,
      <<"a","m","s","t","e","r","d","a","m">>,
      <<"r","o","t","t","e","r","d","a","m">>,
      <<"u","t","r","e","c","h","t">>>>],
  [label |-> "France", keywords |-> <<
      <<"f","r","a","n","c","e">>,
      <<"p","a","r","i","s">>,
      <<"l","y","o","n">>,
      <<"m","a","r","s","e","i","l","l","e">>>>],
  [label |-> "Sweden", keywords |-> <<
      <<"s","w","e","d","e","n">>,
      <<"s","t","o","c","k","h","o","l","m">>,
      <<"g","o","t","h","e","n","b","u","r","g">>>>],
  [label |-> "Switzerland", keywords |-> <<
      <<"s","w","i","t","z","e","r","l","a","n","d">>,
      <<"z","u","r","i","c","h">>,
      <<"g","e","n","e","v","a">>,
      <<"b","a","s","e","l">>>>],
  [label |-> "Japan", keywords |-> <<
      <<"j","a","p","a","n">>,
      <<"t","o","k","y","o">>,
      <<"o","s","a","k","a">>,
      <<"k","y","o","t","o">>>>],
  [label |-> "Singapore", keywords |-> <<
      <<"s","i","n","g","a","p","o","r","e">>>>],
  [label |-> "New Zealand", keywords |-> <<
      <<"n","e","w"," ","z","e","a","l","a","n","d">>,
      <<"a","u","c","k","l","a","n","d">>,
      <<"w","e","l","l","i","n","g","t","o","n">>>>],
  [label |-> "Ireland", keywords |-> <<
      <<"i","r","e","l","a","n","d">>,
      <<"d","u","b","l","i","n">>,
      <<"c","o","r","k">>>>],
  [label |-> "Denmark", keywords |-> <<
      <<"d","e","n","m","a","r","k">>,
      <<"c","o","p","e","n","h","a","g","e","n">>>>],
  [label |-> "Norway", keywords |-> <<
      <<"n","o","r","w","a","y">>,
      <<"o","s","l","o">>>>],
  [label |-> "Finland", keywords |-> <<
      <<"f","i","n","l","a","n","d">>,
      <<"h","e","l","s","i","n","k","i">>>>],
  [label |-> "Austria", keywords |-> <<
      <<"a","u","s","t","r","i","a">>,
      <<"v","i","e","n","n","a">>>>],
  [label |-> "Belgium", keywords |-> <<
      <<"b","e","l","g","i","u","m">>,
      <<"b","r","u","s","s","e","l","s">>,
      <<"a","n","t","w","e","r","p">>>>],
  [label |-> "Italy", keywords |-> <<
      <<"i","t","a","l","y">>,
      <<"r","o","m","e">>,
      <<"m","i","l","a","n">>,
      <<"n","a","p","l","e","s">>>>],
  [label |-> "Spain", keywords |-> <<
      <<"s","p","a","i","n">>,
      <<"m","a","d","r","i","d">>,
      <<"b","a","r","c","e","l","o","n","a">>,
      <<"s","e","v","i","l","l","e">>>>]
>>

\* extractWithRegex, commonSkills in declaration order.
commonSkills == <<
  <<"j","a","v","a","s","c","r","i","p","t">>,
  <<"p","y","t","h","o","n">>,
  <<"j","a","v","a">>,
  <<"c","+","+">>,
  <<"r","e","a","c","t">>,
  <<"n","o","d","e",".","j","s">>,
  <<"a","n","g","u","l","a","r">>,
  <<"v","u","e">>,
  <<"h","t","m","l">>,
  <<"c","s","s">>,
  <<"s","q","l">>,
  <<"n","o","s","q","l">>,
  <<"m","o","n","g","o","d","b">>,
  <<"a","w","s">>,
  <<"d","o","c","k","e","r">>,
  <<"k","u","b","e","r","n","e","t","e","s">>,
  <<"g","i","t">>,
  <<"a","g","i","l","e">>,
  <<"s","c","r","u","m">>,
  <<"c","o","m","m","u","n","i","c","a","t","i","o","n">>,
  <<"l","e","a","d","e","r","s","h","i","p">>,
  <<"p","r","o","b","l","e","m"," ","s","o","l","v","i","n","g">>,
  <<"p","r","o","j","e","c","t"," ","m","a","n","a","g","e","m","e","n","t">>,
  <<"d","a","t","a"," ","a","n","a","l","y","s","i","s">>,
  <<"m","a","c","h","i","n","e"," ","l","e","a","r","n","i","n","g">>,
  <<"a","i">>,
  <<"d","e","v","o","p","s">>>>

\* ------------------------------------------------------- JavaScript values
\* A value as JSON.parse or the engine produces it: k is its type, n its
\* number, s its string, a its elements.  "frac" is a number that is not an
\* integer (n holds its floor); "undefined" is a missing property.
JsValue(k, n, s, a) == [k |-> k, n |-> n, s |-> s, a |-> a]

Undefined == JsValue("undefined", 0, "", <<>>)

Null == JsValue("null", 0, "", <<>>)

Num(n) == JsValue("num", n, "", <<>>)

Frac(n) == JsValue("frac", n, "", <<>>)

Str(s) == JsValue("str", 0, s, <<>>)

Arr(a) == JsValue("arr", 0, "", a)

\* An object literal inside a JSON array, named by a tag.
Obj(s) == JsValue("obj", 0, s, <<>>)

\* ToBoolean: undefined, null, 0 and "" are falsy, everything else is truthy.
Truthy(v) ==
  ~ \/ v.k \in {"undefined", "null"}
    \/ v.k = "num" /\ v.n = 0
    \/ v.k = "str" /\ v.s = ""

\* The JavaScript expression  v || d.
OrElse(v, d) == IF Truthy(v) THEN v ELSE d

\* Array.isArray(v).
IsArray(v) == v.k = "arr"

\* -------------------------------------------------------- extractWithRegex
\* The labels of a keyword table, in declaration order, whose keyword list
\* has a keyword that textLower includes (keywords.some(k => includes(k))).
MatchingLabels(table, textLower) ==
  LET hit(i) == \E j \in 1..Len(table[i].keywords) :
                   Includes(textLower, table[i].keywords[j])
      F[i \in 0..Len(table)] ==
        IF i = 0 THEN <<>>
        ELSE IF hit(i) THEN Append(F[i - 1], table[i].label) ELSE F[i - 1]
  IN F[Len(table)]

\* EducationLevelOf in which a later branch of the chain overrides an
\* earlier one.
EducationLevelOf_LastMatch(textLower) ==
  LET m == MatchingLabels(educationPatterns, textLower)
  IN IF m = <<>> THEN "Bachelor's" ELSE m[Len(m)]

\* The if / else-if chain over the four education patterns: first match wins.
EducationLevelOf(textLower) ==
  LET m == MatchingLabels(educationPatterns, textLower)
  IN IF m = <<>> THEN "Bachelor's" ELSE m[1]

\* The loop over Object.entries(fieldKeywords): every matching category.
FieldsOf(textLower) == MatchingLabels(fieldKeywords, textLower)

\* CountryOf without the break: the last matching country wins.
CountryOf_LastMatch(textLower) ==
  LET m == MatchingLabels(countries, textLower)
  IN IF m = <<>> THEN "International" ELSE m[Len(m)]

\* CountryOf with another initial value: let country = 'Unknown'.
CountryOf_UnknownDefault(textLower) ==
  LET m == MatchingLabels(countries, textLower)
  IN IF m = <<>> THEN "Unknown" ELSE m[1]

\* The loop over Object.entries(countries) with its break: first match wins.
CountryOf(textLower) ==
  LET m == MatchingLabels(countries, textLower)
  IN IF m = <<>> THEN "International" ELSE m[1]

\* Capitalize that leaves the token as it is in the vocabulary.
Capitalize_None(skill) == skill

\* skill.charAt(0).toUpperCase() + skill.slice(1).
Capitalize(skill) ==
  IF skill = <<>> THEN <<>> ELSE <<ToUpperChar(skill[1])>> \o Tail(skill)

\* commonSkills.forEach: every vocabulary token that textLower includes.
SkillsOf(textLower) ==
  LET F[i \in 0..Len(commonSkills)] ==
        IF i = 0 THEN <<>>
        ELSE IF Includes(textLower, commonSkills[i])
             THEN Append(F[i - 1], Capitalize(commonSkills[i]))
             ELSE F[i - 1]
  IN F[Len(commonSkills)]

\* The first position >= i of s that holds no white space (\s* is greedy and
\* what follows it in the pattern is never white space).
RECURSIVE SkipWhiteSpace(_, _)
SkipWhiteSpace(s, i) ==
  IF i <= Len(s) /\ s[i] \in WhiteSpace THEN SkipWhiteSpace(s, i + 1) ELSE i

\* \d{4} at position i of s.
FourDigitsAt(s, i) == i + 3 <= Len(s) /\ \A j \in i..(i + 3) : s[j] \in Digits

\* The literal "present" at position i of s, letter case ignored (flag i).
PresentWord == <<"p","r","e","s","e","n","t">>

PresentAt(s, i) ==
  i + 6 <= Len(s) /\ \A j \in 1..7 : ToLowerChar(s[i + j - 1]) = PresentWord[j]

\* experienceRegex = /(\d{4})\s*[-–]\s*(present|\d{4})/gi tried at position i
\* of s: the position after the match, or 0 when it does not match there.
MatchEndAt(s, i) ==
  IF ~ FourDigitsAt(s, i) THEN 0
  ELSE LET d == SkipWhiteSpace(s, i + 4)
       IN IF ~ (d <= Len(s) /\ s[d] \in {"-", EnDash}) THEN 0
          ELSE LET e == SkipWhiteSpace(s, d + 1)
               IN IF PresentAt(s, e) THEN e + 7
                  ELSE IF FourDigitsAt(s, e) THEN e + 4
                  ELSE 0

\* RegExp exec from 1-based position from: the leftmost match at or after
\* from, as [start, end) positions; start = 0 when there is none.
ExecFrom(s, from) ==
  IF \E i \in from..Len(s) : MatchEndAt(s, i) # 0
  THEN LET i == CHOOSE k \in from..Len(s) :
                  MatchEndAt(s, k) # 0 /\ \A m \in from..(k - 1) : MatchEndAt(s, m) = 0
       IN [start |-> i, end |-> MatchEndAt(s, i)]
  ELSE [start |-> 0, end |-> 0]

\* experienceRegex.test(line) on a global regex whose lastIndex (0-based) is
\* lastIndex: the search starts there; a match leaves lastIndex after it, a
\* failure resets it to 0.
RegexTest(line, lastIndex) ==
  LET m == IF lastIndex > Len(line) THEN [start |-> 0, end |-> 0]
           ELSE ExecFrom(line, lastIndex + 1)
  IN [found |-> m.start # 0,
      lastIndex |-> IF m.start # 0 THEN m.end - 1 ELSE 0]

\* line.replace(experienceRegex, ''): every match, left to right from the
\* start of the line, is removed.
RECURSIVE RemoveMatches(_)
RemoveMatches(line) ==
  LET m == ExecFrom(line, 1)
  IN IF m.start = 0 THEN line
     ELSE SubSeq(line, 1, m.start - 1)
            \o RemoveMatches(SubSeq(line, m.end, Len(line)))

\* FirstMatch taken from the lowercased line.
FirstMatch_LowerCase(line) ==
  LET m == ExecFrom(line, 1) IN ToLowerCase(SubSeq(line, m.start, m.end - 1))

\* line.match(experienceRegex)[0]: the first match from the start of the line.
FirstMatch(line) ==
  LET m == ExecFrom(line, 1) IN SubSeq(line, m.start, m.end - 1)

\* CompanyOf that takes a remainder of 3 characters or more.
CompanyOf_ThreeOrMore(lines, i) ==
  LET cleanLine == Trim(RemoveMatches(lines[i]))
  IN IF Len(cleanLine) >= 3 THEN cleanLine
     ELSE IF i > 1 /\ Len(Trim(lines[i - 1])) >= 3 THEN Trim(lines[i - 1])
     ELSE <<"U","n","k","n","o","w","n"," ","C","o","m","p","a","n","y">>

\* The company heuristic of one matching line lines[i].
CompanyOf(lines, i) ==
  LET cleanLine == Trim(RemoveMatches(lines[i]))
  IN IF Len(cleanLine) > 3 THEN cleanLine
     ELSE IF i > 1 /\ Len(Trim(lines[i - 1])) > 3 THEN Trim(lines[i - 1])
     ELSE <<"U","n","k","n","o","w","n"," ","C","o","m","p","a","n","y">>

\* The entry pushed for the matching line lines[i].
ExperienceEntry(lines, i) ==
  [company |-> Substring(CompanyOf(lines, i), CompanyMaxLen),
   position |-> "Unknown Position",
   duration |-> FirstMatch(lines[i]),
   description |-> "Extracted from resume"]

\* A global regex used by replace or match: lastIndex is set to 0 and the
\* regex is executed from lastIndex, match after match, until it fails; the
\* lastIndex left by ScanToEnd(line, 0) is the one the method leaves.
RECURSIVE ScanToEnd(_, _)
ScanToEnd(line, lastIndex) ==
  LET t == RegexTest(line, lastIndex)
  IN IF t.found THEN ScanToEnd(line, t.lastIndex) ELSE t.lastIndex

\* LastIndexAfterUse of methods that leave lastIndex where test put it.
LastIndexAfterUse_Kept(line, lastIndex) == lastIndex

\* The lastIndex of experienceRegex after lines[i].replace(experienceRegex, '')
\* and then lines[i].match(experienceRegex), called with the lastIndex that
\* the successful test left: each of the two sets lastIndex to 0 before it
\* scans, so the value is the one the scan of match leaves.
LastIndexAfterUse(line, lastIndex) == ScanToEnd(line, 0)

\* The for loop over the lines from line i on, with the regex's lastIndex
\* carried from one test to the next and the break at ExperienceCap
\* entries: the entries pushed, and (history) the lastIndex at the start of
\* each test.
RECURSIVE ExperienceLoop(_, _, _, _)
ExperienceLoop(lines, i, lastIndex, experience) ==
  IF i > Len(lines) THEN [experience |-> experience, tested |-> <<>>]
  ELSE LET t == RegexTest(lines[i], lastIndex)
           pushed == Append(experience, ExperienceEntry(lines, i))
           after ==
             IF t.found
             THEN IF Len(pushed) >= ExperienceCap
                  THEN [experience |-> pushed, tested |-> <<>>]
                  ELSE ExperienceLoop(lines, i + 1,
                                      LastIndexAfterUse(lines[i], t.lastIndex), pushed)
             ELSE ExperienceLoop(lines, i + 1, t.lastIndex, experience)
       IN [after EXCEPT !.tested = <<lastIndex>> \o @]

ExperienceOf(text) == ExperienceLoop(SplitLines(text), 1, 0, <<>>).experience

\* RegexConfidence in which a matched field of study counts 10, as the other
\* signals do.
RegexConfidence_FieldTen(educationLevel, fields, country, skills) ==
  RegexBaseConfidence
    + (IF educationLevel # "Bachelor's" THEN 10 ELSE 0)
    + (IF Len(fields) > 0 THEN 10 ELSE 0)
    + (IF country # "International" THEN 10 ELSE 0)
    + (IF Len(skills) > 0 THEN 10 ELSE 0)

\* The additive confidence score.
RegexConfidence(educationLevel, fields, country, skills) ==
  RegexBaseConfidence
    + (IF educationLevel # "Bachelor's" THEN 10 ELSE 0)
    + (IF Len(fields) > 0 THEN 20 ELSE 0)
    + (IF country # "International" THEN 10 ELSE 0)
    + (IF Len(skills) > 0 THEN 10 ELSE 0)

\* RegexFieldOfStudy that keeps the last two categories that matched.
RegexFieldOfStudy_LastTwo(fields) ==
  IF Len(fields) > 0
  THEN SubSeq(fields, IF Len(fields) > MaxFields THEN Len(fields) - MaxFields + 1 ELSE 1,
              Len(fields))
  ELSE <<"General">>

\* fields.length > 0 ? fields.slice(0, 2) : ['General'].
RegexFieldOfStudy(fields) ==
  IF Len(fields) > 0 THEN Slice(fields, 0, MaxFields) ELSE <<"General">>

\* The strings of a sequence as JavaScript string values.
StrSeq(labels) == [i \in 1..Len(labels) |-> Str(labels[i])]

extractWithRegex(text) ==
  LET textLower == ToLowerCase(text)
      educationLevel == EducationLevelOf(textLower)
      fields == FieldsOf(textLower)
      country == CountryOf(textLower)
      skills == SkillsOf(textLower)
      experience == ExperienceOf(text)
  IN [educationLevel |-> Str(educationLevel),
      fieldOfStudy |-> Arr(StrSeq(RegexFieldOfStudy(fields))),
      country |-> Str(country),
      skills |-> Arr(skills),
      experience |-> Arr(experience),
      confidence |-> Num(RegexConfidence(educationLevel, fields, country, skills))]

\* ------------------------------------------------------------------ errors
\* An Error: its message is the sequence of the phrases it is made of (a
\* message includes a marker when the marker is one of its phrases), its code
\* is the code property ("" when it has none).
Error(message, code) == [message |-> message, code |-> code]

NoError == Error(<<>>, "")

\* error.message.includes(marker).
MessageIncludes(message, marker) == \E i \in 1..Len(message) : message[i] = marker

\* ClassifyError without the two branches for decoder failures.
ClassifyError_NoParseBranches(message) ==
  IF MessageIncludes(message, "Unsupported file format") THEN "UnsupportedFormat"
  ELSE IF MessageIncludes(message, "File not found") THEN "FileNotFound"
  ELSE IF \/ MessageIncludes(message, "empty")
          \/ MessageIncludes(message, "no extractable text") THEN "EmptyDocument"
  ELSE "Unclassified"

\* The if / else-if chain of parseResume's catch block: the typed error it
\* throws for this message, or "Unclassified" when it falls through to the
\* safe default.
ClassifyError(message) ==
  IF MessageIncludes(message, "Unsupported file format") THEN "UnsupportedFormat"
  ELSE IF MessageIncludes(message, "File not found") THEN "FileNotFound"
  ELSE IF \/ MessageIncludes(message, "empty")
          \/ MessageIncludes(message, "no extractable text") THEN "EmptyDocument"
  ELSE IF MessageIncludes(message, "PDF parsing failed") THEN "PdfParseFailed"
  ELSE IF MessageIncludes(message, "DOCX parsing failed") THEN "DocxParseFailed"
  ELSE "Unclassified"

\* SafeDefault without its marker and with the regex engine's base score.
SafeDefault_Unmarked ==
  [text |-> <<>>,
   educationLevel |-> Str("Bachelor's"),
   fieldOfStudy |-> Arr(<<Str("General")>>),
   country |-> Str("International"),
   skills |-> Arr(<<>>),
   experience |-> Arr(<<>>),
   confidence |-> Num(RegexBaseConfidence)]

\* The object literal returned at the end of the catch block.
SafeDefault ==
  [text |-> <<>>,
   educationLevel |-> Str("Bachelor's"),
   fieldOfStudy |-> Arr(<<Str("General")>>),
   country |-> Str("International"),
   skills |-> Arr(<<>>),
   experience |-> Arr(<<>>),
   confidence |-> Num(FallbackConfidence),
   _fallback |-> TRUE]

\* ------------------------------------------------------- provider adapters
\* modelsToTry of extractWithGemini.
modelsToTry ==
  <<"gemini-2.0-flash", "gemini-1.5-flash", "gemini-flash-latest", "gemini-pro">>

\* The two models of extractWithOpenAI: the first call and the retry.
openaiModels == <<"gpt-4o-mini", "gpt-3.5-turbo">>

\* What JSON.parse makes of a provider's answer: kind "unparseable" (it
\* throws SyntaxError), "null" (the JSON text null), or "object" with the
\* properties in fields (Undefined for a property the object lacks).
Unparseable == [kind |-> "unparseable", fields |-> <<>>]

JsonNull == [kind |-> "null", fields |-> <<>>]

JsonObject(fields) == [kind |-> "object", fields |-> fields]

\* GeminiResult that wraps a scalar in every array-typed field and has no
\* "General" entry.
GeminiResult_WrapScalars(parsed) ==
  LET Wrap(v) == IF IsArray(v) THEN v ELSE IF Truthy(v) THEN Arr(<<v>>) ELSE Arr(<<>>)
  IN [education |-> Wrap(parsed.education),
      educationLevel |-> OrElse(parsed.educationLevel, Str("Bachelor's")),
      fieldOfStudy |-> Wrap(parsed.fieldOfStudy),
      country |-> OrElse(parsed.country, Str("International")),
      skills |-> Wrap(parsed.skills),
      experience |-> Wrap(parsed.experience),
      confidence |-> OrElse(parsed.confidence, Num(DefaultProviderConfidence))]

\* The object literal extractWithGemini returns for a parsed answer.
GeminiResult(parsed) ==
  [education |-> IF IsArray(parsed.education) THEN parsed.education ELSE Arr(<<>>),
   educationLevel |-> OrElse(parsed.educationLevel, Str("Bachelor's")),
   fieldOfStudy |-> IF IsArray(parsed.fieldOfStudy) THEN parsed.fieldOfStudy
                    ELSE Arr(<<OrElse(parsed.fieldOfStudy, Str("General"))>>),
   country |-> OrElse(parsed.country, Str("International")),
   skills |-> IF IsArray(parsed.skills) THEN parsed.skills ELSE Arr(<<>>),
   experience |-> IF IsArray(parsed.experience) THEN parsed.experience ELSE Arr(<<>>),
   confidence |-> OrElse(parsed.confidence, Num(DefaultProviderConfidence))]

\* The object literal extractWithOpenAI returns for a parsed answer (the same
\* in the first call and in the retry).
OpenAIResult(result) ==
  [education |-> IF IsArray(result.education) THEN result.education ELSE Arr(<<>>),
   educationLevel |-> OrElse(result.educationLevel, Str("Bachelor's")),
   fieldOfStudy |-> IF IsArray(result.fieldOfStudy) THEN result.fieldOfStudy
                    ELSE Arr(<<OrElse(result.fieldOfStudy, Str("General"))>>),
   country |-> OrElse(result.country, Str("International")),
   confidence |-> OrElse(result.confidence, Num(DefaultProviderConfidence)),
   skills |-> IF IsArray(result.skills) THEN result.skills ELSE Arr(<<>>),
   experience |-> IF IsArray(result.experience) THEN result.experience ELSE Arr(<<>>)]

\* ------------------------------------------------------------------ inputs
\* The ids of the parseResume invocations.
Runs == {"r1"}

\* A sample resume, as the sequence of the fragments a decoder may find in it.
SampleResume ==
  << <<"J", "o">>,
     <<" ", "\n">>,
     <<"M", "B", "A">>,
     <<"\n", " ">>,
     <<"B","i","o","m","e","d","i","c","a","l"," ","S","c","i","e","n","c","e">>,
     <<"O", "s", "l", "o">>,
     <<" ", "\n">> >>

RECURSIVE Concat(_)
Concat(parts) == IF parts = <<>> THEN <<>> ELSE Head(parts) \o Concat(Tail(parts))

\* The texts a decoder may return: "" and every excerpt of the sample resume
\* that is at most MaxFrags consecutive fragments long.
Docs ==
  {<<>>} \cup
  { Concat(SubSeq(SampleResume, w[1], w[2])) :
      w \in { v \in (1..Len(SampleResume)) \X (1..Len(SampleResume)) :
                v[1] <= v[2] /\ v[2] < v[1] + MaxFrags } }

\* The arguments of parseResume: a Buffer, or a file path with the state of
\* the file system at that path (exists: fs.existsSync; readable:
\* fs.readFileSync returns; ext: path.extname; marks: the marker phrases that
\* occur in the path itself).
BufferInput ==
  [isBuffer |-> TRUE, exists |-> TRUE, readable |-> TRUE, ext |-> "", marks |-> <<>>]

PathInput(exists, readable, ext, marks) ==
  [isBuffer |-> FALSE, exists |-> exists, readable |-> readable, ext |-> ext,
   marks |-> marks]

Extensions == {".pdf", ".PDF", ".docx", ".doc", ".txt", ""}

Inputs ==
  {BufferInput}
    \cup { PathInput(TRUE, TRUE, ext, <<>>) : ext \in Extensions }
    \cup { PathInput(e, FALSE, ext, m) :
             e \in BOOLEAN, ext \in {".pdf", ".txt"}, m \in {<<>>, <<"empty">>} }

\* path.extname(filePath).toLowerCase().
LowerExt(ext) == IF ext = ".PDF" THEN ".pdf" ELSE ext

\* What a decoder (pdfParse, mammoth.extractRawText) may throw.
DecoderErrors ==
  { Error(<<"Invalid PDF structure">>, ""),
    Error(<<"stream is ", "empty">>, "") }

\* What fs.readFileSync throws on a file it cannot read.
ReadError(input) == Error(<<"EACCES: permission denied, open ">> \o input.marks, "")

\* What a provider call may throw: a network error, or the API's error for a
\* model it does not know.
ProviderErrors ==
  { Error(<<"fetch failed">>, ""),
    Error(<<"The model does not exist">>, "model_not_found") }

\* A well-formed answer, and the answers that differ from it in one property.
GoodAnswer ==
  [education |-> Arr(<<Obj("degree1")>>),
   educationLevel |-> Str("Master's"),
   fieldOfStudy |-> Arr(<<Str("Physics")>>),
   country |-> Str("India"),
   skills |-> Arr(<<Str("Go")>>),
   experience |-> Arr(<<Obj("job1")>>),
   confidence |-> Num(85)]

EmptyAnswer ==
  [education |-> Undefined, educationLevel |-> Undefined, fieldOfStudy |-> Undefined,
   country |-> Undefined, skills |-> Undefined, experience |-> Undefined,
   confidence |-> Undefined]

Answers ==
  {GoodAnswer, EmptyAnswer}
    \cup { [GoodAnswer EXCEPT !.confidence = c] :
             c \in {Num(0), Num(150), Num(-5), Frac(72), Str("high")} }
    \cup { [GoodAnswer EXCEPT !.fieldOfStudy = f] :
             f \in {Arr(<<>>), Arr(<<Str("Physics"), Str("Math"), Str("Law")>>),
                    Str("Physics"), Str("")} }
    \cup { [GoodAnswer EXCEPT !.country = c] :
             c \in {Str("United States"), Str(""), Null} }
    \cup { [GoodAnswer EXCEPT !.skills = Str("Go"), !.education = Str("BSc"),
                                !.experience = Str("Intern")] }

\* How a provider call may end: it throws, or it returns an answer.
ProviderOutcomes ==
  { [throws |-> TRUE, error |-> e, parsed |-> Unparseable] : e \in ProviderErrors }
    \cup { [throws |-> FALSE, error |-> NoError, parsed |-> p] :
             p \in {Unparseable, JsonNull} \cup { JsonObject(a) : a \in Answers } }

\* How a decoder call may end: it throws, or it returns a text.
DecoderOutcomes ==
  { [throws |-> TRUE, error |-> e, text |-> <<>>] : e \in DecoderErrors }
    \cup { [throws |-> FALSE, error |-> NoError, text |-> d] : d \in Docs }

\* ------------------------------------------------------------------- state
VARIABLES
  env,          \* process.env: which keys are set, PREFER_OPENAI === 'true'
  openai,       \* the module-level OpenAI client: 0 is null, n the n-th built
  gemini,       \* the module-level Gemini client: 0 is null, n the n-th built
  constructed,  \* history: how many clients of each provider were built
  run,          \* per invocation of parseResume: its locals and its history
  requests,     \* per HTTP request that reached a route handler: its locals
  files,        \* the uploads directory: the stored files that exist
  db            \* the database, as the route handlers use it

vars == <<env, openai, gemini, constructed, run, requests, files, db>>

\* The state of the routes.
web == <<requests, files, db>>

\* No request was received: the routes play no part.
NoDb == [profileWrites |-> 0, userWrites |-> 0, uniqueIndex |-> FALSE, saved |-> <<>>]

NoRequests == requests = <<>> /\ files = {} /\ db = NoDb

NoResult == [none |-> TRUE]

\* No decoder has returned a text (yet); Decoded(text): one returned text.
NotDecoded == [settled |-> FALSE, text |-> <<>>]

Decoded(text) == [settled |-> TRUE, text |-> text]

\* A parseResume invocation that has not started.
IdleRun ==
  [pc |-> "idle",            \* idle, decoding, gemini, openai, returned, thrown
   input |-> BufferInput,    \* the argument
   fileExt |-> "",           \* let fileExt
   decoded |-> NotDecoded,   \* history: the text the decoder returned
   text |-> <<>>,            \* let text, once normalized
   clients |-> [openai |-> 0, gemini |-> 0],  \* const { openai, gemini }
   variant |-> 0,            \* index of the model whose call is awaited
   lastError |-> NoError,    \* let lastError of extractWithGemini; the error
                             \* caught in extractWithOpenAI during its retry
   inflight |-> {},          \* the provider calls awaited
   answer |-> EmptyAnswer,   \* history: the parsed answer an adapter accepted
   result |-> NoResult,      \* the value returned
   thrown |-> "none",        \* the typed error thrown
   caught |-> NoError,       \* history: the error the catch block received
   path |-> "none",          \* history: gemini, openai, regex or fallback
   calls |-> <<>>,           \* history: the provider calls issued, in order
   failed |-> <<>>,          \* history: the adapters that threw, with the error
   callError |-> NoError,    \* history: the error of the provider call that
                             \* settled last (NoError when it gave the result)
   decoderCalls |-> 0,       \* history: calls of pdfParse / mammoth
   lookups |-> 0,            \* history: calls of getAIClients
   regexCalls |-> 0]         \* history: calls of extractWithRegex

Init ==
  /\ env \in [OPENAI_API_KEY : BOOLEAN, GEMINI_API_KEY : BOOLEAN, PREFER_OPENAI : BOOLEAN]
  /\ openai = 0
  /\ gemini = 0
  /\ constructed = [openai |-> 0, gemini |-> 0]
  /\ run = [r \in Runs |-> IdleRun]
  /\ NoRequests

\* -------------------------------------------------------------- parseResume
\* The catch block of parseResume: a typed error is thrown for a message it
\* recognizes, the safe default is returned for any other.
Catch(st, error) ==
  IF ClassifyError(error.message) # "Unclassified"
  THEN [st EXCEPT !.pc = "thrown", !.thrown = ClassifyError(error.message),
                  !.caught = error, !.inflight = {}, !.variant = 0]
  ELSE [st EXCEPT !.pc = "returned", !.result = SafeDefault, !.path = "fallback",
                  !.caught = error, !.inflight = {}, !.variant = 0]

\* SupportedExt that also lets plain text files through.
SupportedExt_WithTxt(fileExt) == fileExt \in {".pdf", ".docx", ".doc", ".txt"}

\* The file types parseResume has a decoder for.
SupportedExt(fileExt) == fileExt \in {".pdf", ".docx", ".doc"}

\* IsEmptyText without the trim: !text only.
IsEmptyText_NoTrim(text) == text = <<>>

\* !text || text.trim().length === 0.
IsEmptyText(text) == text = <<>> \/ Len(Trim(text)) = 0

\* Return that fills the skills in from the regex engine.
Return_Merged(st, extractedData, path) ==
  [st EXCEPT !.pc = "returned",
             !.result = [extractedData EXCEPT !.skills = extractWithRegex(st.text).skills]
                          @@ [text |-> Slice(st.text, 0, PreviewLen)],
             !.path = path, !.inflight = {}, !.variant = 0, !.lastError = NoError]

\* return { text: text.slice(0, 2000), ...extractedData }.
Return(st, extractedData, path) ==
  [st EXCEPT !.pc = "returned",
             !.result = extractedData @@ [text |-> Slice(st.text, 0, PreviewLen)],
             !.path = path, !.inflight = {}, !.variant = 0, !.lastError = NoError]

\* UseRegex that hands the regex engine the text as the decoder returned it.
UseRegex_DecodedText(st) ==
  Return([st EXCEPT !.regexCalls = @ + 1], extractWithRegex(st.decoded.text), "regex")

\* "Final fallback to Regex": extractedData = extractWithRegex(text).
UseRegex(st) ==
  Return([st EXCEPT !.regexCalls = @ + 1], extractWithRegex(st.text), "regex")

\* The models of a provider's adapter, in the order it tries them.
ModelsOf(provider) == IF provider = "gemini" THEN modelsToTry ELSE openaiModels

\* The adapter issues the call to its v-th model and awaits it.
CallProvider(st, provider, v) ==
  LET call == [provider |-> provider, model |-> ModelsOf(provider)[v]]
  IN [st EXCEPT !.pc = provider, !.variant = v, !.inflight = {call},
                !.calls = Append(@, call)]

\* TryOrder that ignores PREFER_OPENAI.
TryOrder_GeminiFirst(preferOpenAI) == <<"gemini", "openai">>

\* "Execution Logic": the order in which tryGemini and tryOpenAI are awaited.
TryOrder(preferOpenAI) ==
  IF preferOpenAI THEN <<"openai", "gemini">> ELSE <<"gemini", "openai">>

\* TryFrom whose helpers test the module-level clients instead of the ones
\* parseResume destructured from getAIClients().
RECURSIVE TryFrom_ModuleClients(_, _, _)
TryFrom_ModuleClients(st, order, k) ==
  IF k > Len(order) THEN UseRegex(st)
  ELSE IF (IF order[k] = "openai" THEN openai ELSE gemini) = 0
  THEN TryFrom_ModuleClients(st, order, k + 1)
  ELSE CallProvider(st, order[k], 1)

\* The k-th helper of the order and those after it: a helper whose client is
\* null returns null at once, one with a client enters its adapter; when no
\* helper is left extractionSuccess is false and the regex engine is used.
RECURSIVE TryFrom(_, _, _)
TryFrom(st, order, k) ==
  IF k > Len(order) THEN UseRegex(st)
  ELSE IF st.clients[order[k]] = 0 THEN TryFrom(st, order, k + 1)
  ELSE CallProvider(st, order[k], 1)

\* The position of a provider in the order.
IndexOf(order, provider) == CHOOSE k \in 1..Len(order) : order[k] = provider

\* AdapterFailed whose helper enters the adapter a second time before it
\* gives up.
AdapterFailed_EnterAgain(st, provider, error) ==
  LET noted == [st EXCEPT !.failed = Append(@, [provider |-> provider, error |-> error]),
                          !.inflight = {}, !.variant = 0, !.lastError = NoError]
  IN IF \E i \in 1..Len(st.failed) : st.failed[i].provider = provider
     THEN TryFrom(noted, TryOrder(env.PREFER_OPENAI),
                  IndexOf(TryOrder(env.PREFER_OPENAI), provider) + 1)
     ELSE CallProvider(noted, provider, 1)

\* AdapterFailed whose helper never settles after the adapter threw.
AdapterFailed_Hangs(st, provider, error) ==
  [st EXCEPT !.pc = "hung", !.inflight = {},
             !.failed = Append(@, [provider |-> provider, error |-> error])]

\* AdapterFailed without the helper's try / catch: the adapter's error reaches
\* the catch block of parseResume.
AdapterFailed_Uncaught(st, provider, error) ==
  Catch([st EXCEPT !.failed = Append(@, [provider |-> provider, error |-> error])],
        error)

\* An adapter threw error: its helper catches it and returns null, and the
\* execution logic goes on with the next helper.
AdapterFailed(st, provider, error) ==
  TryFrom([st EXCEPT !.failed = Append(@, [provider |-> provider, error |-> error]),
                     !.inflight = {}, !.variant = 0, !.lastError = NoError],
          TryOrder(env.PREFER_OPENAI),
          IndexOf(TryOrder(env.PREFER_OPENAI), provider) + 1)

\* ClientAfter without the test of the module-level variable: every call of
\* getAIClients builds a client.
ClientAfter_Rebuild(current, keySet, constructorOk, serial) ==
  IF keySet /\ constructorOk THEN serial ELSE current

\* ClientAfter without the test of the key.
ClientAfter_NoKeyTest(current, keySet, constructorOk, serial) ==
  IF current = 0 /\ constructorOk THEN serial ELSE current

\* A client after getAIClients: built when it is null and its key is set,
\* unless the constructor throws; kept otherwise.
ClientAfter(current, keySet, constructorOk, serial) ==
  IF current = 0 /\ keySet /\ constructorOk THEN serial ELSE current

\* The text of the error a decoder's try block throws for an empty text.
EmptyTextError(kind) ==
  Error(<<kind, " file appears to be ", "empty", " or contains ", "no extractable text">>, "")

\* catch (pdfError) / catch (docError): the error is wrapped.
WrapDecoderError(fileExt, error) ==
  Error(<<IF fileExt = ".pdf" THEN "PDF parsing failed" ELSE "DOCX parsing failed">>
          \o error.message, "")

\* parseResume is called: it runs to the await of the decoder, or throws
\* into its catch block before that.
StartOn(r, inputs) ==
  /\ run[r].pc = "idle"
  /\ \E input \in inputs :
       LET fileExt == IF input.isBuffer THEN ".pdf" ELSE LowerExt(input.ext)
           st == [run[r] EXCEPT !.input = input]
       IN run' = [run EXCEPT ![r] =
            IF ~ input.isBuffer /\ ~ input.exists
            THEN Catch(st, Error(<<"File not found">> \o input.marks, ""))
            ELSE IF ~ input.isBuffer /\ ~ input.readable
            THEN Catch(st, ReadError(input))
            ELSE IF SupportedExt(fileExt)
            THEN [st EXCEPT !.pc = "decoding", !.fileExt = fileExt,
                            !.decoderCalls = @ + 1]
            ELSE Catch([st EXCEPT !.fileExt = fileExt],
                       Error(<<"Unsupported file format">>, ""))]
  /\ UNCHANGED <<env, openai, gemini, constructed>>

\* The decoder's promise settles: the text is checked and normalized, the
\* clients are looked up and the first helper is awaited.
DecoderReturnsOn(r, outcomes) ==
  /\ run[r].pc = "decoding"
  /\ \E outcome \in outcomes, openaiOk \in BOOLEAN, geminiOk \in BOOLEAN :
       LET st == run[r]
           kind == IF st.fileExt = ".pdf" THEN "PDF" ELSE "DOCX"
           newOpenai == ClientAfter(openai, env.OPENAI_API_KEY, openaiOk,
                                    constructed.openai + 1)
           newGemini == ClientAfter(gemini, env.GEMINI_API_KEY, geminiOk,
                                    constructed.gemini + 1)
       IN IF outcome.throws
          THEN /\ run' = [run EXCEPT ![r] =
                            Catch(st, WrapDecoderError(st.fileExt, outcome.error))]
               /\ UNCHANGED <<openai, gemini, constructed>>
          ELSE IF IsEmptyText(outcome.text)
          THEN /\ run' = [run EXCEPT ![r] =
                            Catch([st EXCEPT !.decoded = Decoded(outcome.text)],
                                  WrapDecoderError(st.fileExt, EmptyTextError(kind)))]
               /\ UNCHANGED <<openai, gemini, constructed>>
          ELSE /\ openai' = newOpenai
               /\ gemini' = newGemini
               /\ constructed' =
                    [openai |-> constructed.openai + (IF newOpenai # openai THEN 1 ELSE 0),
                     gemini |-> constructed.gemini + (IF newGemini # gemini THEN 1 ELSE 0)]
               /\ run' = [run EXCEPT ![r] =
                    TryFrom([st EXCEPT !.decoded = Decoded(outcome.text),
                                       !.text = NormalizeText(outcome.text),
                                       !.lookups = @ + 1,
                                       !.clients = [openai |-> newOpenai,
                                                    gemini |-> newGemini]],
                            TryOrder(env.PREFER_OPENAI), 1)]
  /\ UNCHANGED env

\* ThrownByGemini that throws an error of its own.
ThrownByGemini_Generic(lastError) == Error(<<"All Gemini models failed">>, "")

\* "If all models fail": throw lastError.
ThrownByGemini(lastError) == lastError

\* The awaited Gemini call settles (extractWithGemini, one turn of its loop).
GeminiReturnsOn(r, outcomes) ==
  /\ run[r].pc = "gemini"
  /\ \E outcome \in outcomes :
       LET answered == ~ outcome.throws /\ outcome.parsed.kind = "object"
           error == IF outcome.throws THEN outcome.error
                    ELSE Error(<<"Invalid JSON response from Gemini">>, "")
           st == [run[r] EXCEPT !.callError = IF answered THEN NoError ELSE error]
       IN run' = [run EXCEPT ![r] =
            IF answered
            THEN Return([st EXCEPT !.answer = outcome.parsed.fields],
                        GeminiResult(outcome.parsed.fields), "gemini")
            ELSE IF st.variant < Len(modelsToTry)
            THEN CallProvider([st EXCEPT !.lastError = error], "gemini",
                              st.variant + 1)
            ELSE AdapterFailed(st, "gemini",
                               ThrownByGemini([st EXCEPT !.lastError = error].lastError))]
  /\ UNCHANGED <<env, openai, gemini, constructed>>

\* What JSON.parse or the property reads after it throw in extractWithOpenAI.
OpenAIParseError(parsed) ==
  IF parsed.kind = "null"
  THEN Error(<<"Cannot read properties of null">>, "")
  ELSE Error(<<"Unexpected token in JSON">>, "")

\* RetryableOpenAI that retries after any failure of the first call.
RetryableOpenAI_Always(variant, error) == variant = 1

\* extractWithOpenAI calls gpt-3.5-turbo only from the catch block of the
\* first call, and only for an error whose code is model_not_found.
RetryableOpenAI(variant, error) == variant = 1 /\ error.code = "model_not_found"

\* The awaited OpenAI call settles (extractWithOpenAI, first call or retry).
OpenAIReturnsOn(r, outcomes) ==
  /\ run[r].pc = "openai"
  /\ \E outcome \in outcomes :
       LET answered == ~ outcome.throws /\ outcome.parsed.kind = "object"
           error == IF outcome.throws THEN outcome.error
                    ELSE OpenAIParseError(outcome.parsed)
           st == [run[r] EXCEPT !.callError = IF answered THEN NoError ELSE error]
       IN run' = [run EXCEPT ![r] =
            IF answered
            THEN Return([st EXCEPT !.answer = outcome.parsed.fields],
                        OpenAIResult(outcome.parsed.fields), "openai")
            ELSE IF RetryableOpenAI(st.variant, error)
            THEN CallProvider([st EXCEPT !.lastError = error], "openai", 2)
            ELSE AdapterFailed(st, "openai", error)]
  /\ UNCHANGED <<env, openai, gemini, constructed>>

\* The steps of a single invocation, over all the inputs and outcomes.
Start(r) == StartOn(r, Inputs) /\ UNCHANGED web

DecoderReturns(r) == DecoderReturnsOn(r, DecoderOutcomes) /\ UNCHANGED web

GeminiReturns(r) == GeminiReturnsOn(r, ProviderOutcomes) /\ UNCHANGED web

OpenAIReturns(r) == OpenAIReturnsOn(r, ProviderOutcomes) /\ UNCHANGED web

Next ==
  \E r \in Runs :
    \/ Start(r)
    \/ DecoderReturns(r)
    \/ GeminiReturns(r)
    \/ OpenAIReturns(r)

Spec == Init /\ [][Next]_vars

\* ------------------------------------------------- concurrent invocations
\* Two invocations of parseResume in one process: their steps interleave at
\* the awaits. The inputs and outcomes are a part of those of Spec.
ConcRuns == {"r1", "r2"}

ConcInputs == {BufferInput, PathInput(FALSE, FALSE, ".pdf", <<>>)}

ConcDecoderOutcomes ==
  { [throws |-> TRUE, error |-> Error(<<"Invalid PDF structure">>, ""), text |-> <<>>] }
    \cup { [throws |-> FALSE, error |-> NoError, text |-> d] :
             d \in {<<>>, SampleResume[6]} }

ConcProviderOutcomes ==
  { [throws |-> TRUE, error |-> e, parsed |-> Unparseable] : e \in ProviderErrors }
    \cup { [throws |-> FALSE, error |-> NoError, parsed |-> p] :
             p \in {Unparseable, JsonObject(GoodAnswer)} }

ConcInit ==
  /\ env \in [OPENAI_API_KEY : BOOLEAN, GEMINI_API_KEY : BOOLEAN, PREFER_OPENAI : BOOLEAN]
  /\ openai = 0
  /\ gemini = 0
  /\ constructed = [openai |-> 0, gemini |-> 0]
  /\ run = [r \in ConcRuns |-> IdleRun]
  /\ NoRequests

ConcStart(r) == StartOn(r, ConcInputs) /\ UNCHANGED web

ConcDecoderReturns(r) == DecoderReturnsOn(r, ConcDecoderOutcomes) /\ UNCHANGED web

ConcGeminiReturns(r) == GeminiReturnsOn(r, ConcProviderOutcomes) /\ UNCHANGED web

ConcOpenAIReturns(r) == OpenAIReturnsOn(r, ConcProviderOutcomes) /\ UNCHANGED web

ConcNext ==
  \E r \in DOMAIN run :
    \/ ConcStart(r)
    \/ ConcDecoderReturns(r)
    \/ ConcGeminiReturns(r)
    \/ ConcOpenAIReturns(r)

ConcSpec == ConcInit /\ [][ConcNext]_vars

\* ------------------------------------------------------------- scheduling
\* One invocation whose awaited promises all settle.
SoloInit ==
  /\ env \in [OPENAI_API_KEY : BOOLEAN, GEMINI_API_KEY : BOOLEAN, PREFER_OPENAI : BOOLEAN]
  /\ openai = 0
  /\ gemini = 0
  /\ constructed = [openai |-> 0, gemini |-> 0]
  /\ run = [r \in Runs |-> IdleRun]
  /\ NoRequests

\* A promise that an invocation awaits settles, and the event loop runs the
\* continuation: the decoder's promise or a provider call's.
Settle ==
  \E r \in DOMAIN run :
    \/ ConcDecoderReturns(r)
    \/ ConcGeminiReturns(r)
    \/ ConcOpenAIReturns(r)

FairSpec == SoloInit /\ [][ConcNext]_vars /\ WF_vars(Settle)

\* ------------------------------------------- direct calls of extractWithRegex
\* extractWithRegex is exported and called on its own, as the tests do, with
\* a text that was not normalized: it may hold newlines, indentation and
\* upper case. Such a text is put together from at most MaxParts parts.
MaxParts == 2

\* The lines a resume is put together from: degrees, places, date ranges
\* (with a hyphen and with an en dash, in several spacings and letter cases)
\* and skills.
ResumeParts == <<
  <<"P","h","D"," ","i","n"," ","P","h","y","s","i","c","s">>,
  <<"B","a","c","h","e","l","o","r"," ","o","f"," ","A","r","t","s">>,
  <<"M",".","S","c","."," ","H","e","a","l","t","h"," ","L","a","w">>,
  <<"H","i","g","h"," ","S","c","h","o","o","l"," ","D","i","p","l","o","m","a">>,
  <<"N","e","w"," ","Y","o","r","k",","," ","N","Y">>,
  <<"B","a","n","g","a","l","o","r","e",","," ","I","n","d","i","a">>,
  <<"M","u","n","i","c","h",","," ","G","e","r","m","a","n","y">>,
  <<"2","0","2","0"," ","-"," ","P","r","e","s","e","n","t","\n","S","e","n","i","o","r",
    " ","D","e","v","e","l","o","p","e","r">>,
  <<"I","n","t","e","r","n"," ","a","t"," ","I","n","t","e","r","n","a","t","i","o","n",
    "a","l"," ","B","u","s","i","n","e","s","s"," ","M","a","c","h","i","n","e","s"," ",
    "C","o","r","p","o","r","a","t","i","o","n",","," ","A","r","m","o","n","k"," ","2",
    "0","1","6",EnDash,"2","0","1","7",","," ","2","0","1","7"," ","-"," "," ","P","R",
    "E","S","E","N","T">>,
  <<"J","a","v","a","S","c","r","i","p","t",","," ","M","o","n","g","o","D","B",","," ","A",
    "W","S",","," ","O","s","l","o">>,
  <<"2","0","1","0","-","2","0","1","1","\n","2","0","1","1"," ","-"," ","2","0","1","2",
    " ","A","c","m","e","\n","2","0","1","2",EnDash,"2","0","1","3"," ","a","b","c",
    "\n","2","0","1","3",
    " ","-","p","r","e","s","e","n","t">>
>>

\* The text of test('Resume Parser - Skills Extraction').
SkillsTestText ==
  <<"\n"," "," "," "," ","J","a","n","e"," ","D","o","e","\n"," "," "," "," ","S","o","f",
    "t","w","a","r","e"," ","E","n","g","i","n","e","e","r","\n"," "," "," "," ","\n"," ",
    " "," "," ","S","k","i","l","l","s",":","\n"," "," "," "," ","-"," ","J","a","v","a",
    "S","c","r","i","p","t",","," ","P","y","t","h","o","n",","," ","J","a","v","a","\n",
    " "," "," "," ","-"," ","R","e","a","c","t",","," ","N","o","d","e",".","j","s",","," ",
    "A","n","g","u","l","a","r","\n"," "," "," "," ","-"," ","S","Q","L",","," ","M","o",
    "n","g","o","D","B",","," ","A","W","S","\n"," "," "," "," ","-"," ","D","o","c","k",
    "e","r",","," ","K","u","b","e","r","n","e","t","e","s","\n"," "," "," "," ","\n"," ",
    " "," "," ","E","x","p","e","r","i","e","n","c","e",":","\n"," "," "," "," ","2","0",
    "2","0"," ","-"," ","P","r","e","s","e","n","t","\n"," "," "," "," ","S","e","n","i",
    "o","r"," ","D","e","v","e","l","o","p","e","r"," ","a","t"," ","T","e","c","h"," ","C",
    "o","r","p","\n"," "," "," "," ">>

\* The text of test('Resume Parser - Experience Extraction').
ExperienceTestText ==
  <<"\n"," "," "," "," ","J","a","n","e"," ","D","o","e","\n"," "," "," "," ","\n"," "," ",
    " "," ","E","x","p","e","r","i","e","n","c","e","\n"," "," "," "," ","\n"," "," "," ",
    " ","2","0","1","8"," ","-"," ","2","0","2","0","\n"," "," "," "," ","J","u","n","i",
    "o","r"," ","D","e","v","e","l","o","p","e","r"," ","a","t"," ","S","t","a","r","t","u",
    "p"," ","I","n","c","\n"," "," "," "," ","W","o","r","k","e","d"," ","o","n"," ","f",
    "r","o","n","t","e","n","d",".","\n"," "," "," "," ","\n"," "," "," "," ","2","0","2",
    "0"," ","-"," ","P","r","e","s","e","n","t","\n"," "," "," "," ","S","e","n","i","o",
    "r"," ","D","e","v","e","l","o","p","e","r"," ","a","t"," ","T","e","c","h"," ","C","o",
    "r","p","\n"," "," "," "," ","L","e","a","d","i","n","g"," ","t","h","e"," ","t","e",
    "a","m",".","\n"," "," "," "," ">>

\* The text of test('Resume Parser - Country Extraction'), text.
CountryTestText1 ==
  <<"\n"," "," "," "," ","J","o","h","n"," ","S","m","i","t","h","\n"," "," "," "," ","1",
    "2","3"," ","M","a","i","n"," ","S","t",","," ","N","e","w"," ","Y","o","r","k",","," ",
    "N","Y","\n"," "," "," "," ","U","n","i","t","e","d"," ","S","t","a","t","e","s","\n",
    " "," "," "," ">>

\* The text of test('Resume Parser - Country Extraction'), text2.
CountryTestText2 ==
  <<"\n"," "," "," "," ","P","r","i","y","a"," ","S","h","a","r","m","a","\n"," "," "," ",
    " ","B","a","n","g","a","l","o","r","e",","," ","I","n","d","i","a","\n"," "," "," "," ">>

\* The text of test('Resume Parser - Country Extraction'), text3.
CountryTestText3 ==
  <<"\n"," "," "," "," ","H","a","n","s"," ","M","u","e","l","l","e","r","\n"," "," "," ",
    " ","M","u","n","i","c","h",","," ","G","e","r","m","a","n","y","\n"," "," "," "," ">>

RECURSIVE JoinLines(_)
JoinLines(parts) ==
  IF parts = <<>> THEN <<>>
  ELSE IF Len(parts) = 1 THEN parts[1]
  ELSE parts[1] \o <<"\n">> \o JoinLines(Tail(parts))

\* The texts of the direct calls: the texts of the tests, and every text of
\* at most MaxParts of the parts, in any order, one below the other.
RegexTexts ==
  {SkillsTestText, ExperienceTestText, CountryTestText1, CountryTestText2,
   CountryTestText3}
    \cup { JoinLines([i \in 1..n |-> ResumeParts[pick[i]]]) :
             n \in 0..MaxParts, pick \in [1..MaxParts -> 1..Len(ResumeParts)] }

RegexInit ==
  /\ env = [OPENAI_API_KEY |-> FALSE, GEMINI_API_KEY |-> FALSE, PREFER_OPENAI |-> FALSE]
  /\ openai = 0
  /\ gemini = 0
  /\ constructed = [openai |-> 0, gemini |-> 0]
  /\ run = [r \in Runs |-> IdleRun]
  /\ NoRequests

\* extractWithRegex(text) is called and returns.
DirectCall(r) ==
  /\ run[r].pc = "idle"
  /\ \E text \in RegexTexts :
       run' = [run EXCEPT ![r] =
                 [@ EXCEPT !.pc = "returned", !.text = text, !.path = "direct",
                           !.result = extractWithRegex(text), !.regexCalls = 1]]
  /\ UNCHANGED <<env, openai, gemini, constructed>>
  /\ UNCHANGED web

RegexNext == \E r \in Runs : DirectCall(r)

RegexSpec == RegexInit /\ [][RegexNext]_vars

\* ------------------------------------------------------- whole documents
\* One invocation of parseResume on whole documents, as a decoder returns
\* them: with line breaks and indentation, and up to more than PreviewLen
\* characters long.
\* A document of n characters: a name and a date range on two lines, then
\* the line "MBA " over and over.
LongDoc(n) ==
  LET head == <<"J","o","\n"," ","2","0","1","9"," ","-"," ","2","0","2","1","\n">>
      filler == <<"M","B","A"," ","\n">>
  IN [i \in 1..n |->
        IF i <= Len(head) THEN head[i]
        ELSE filler[((i - Len(head) - 1) % Len(filler)) + 1]]

\* The lengths of the long documents: their normalized texts are PreviewLen
\* characters long and one character longer.
LongDocLengths == {2497, 2498}

\* Documents that are a date range and little or nothing else.
DateOnlyDoc == <<"2","0","1","9"," ","-"," ","2","0","2","0","\n">>

DateShortDoc ==
  <<" ","a","b","\n","2","0","1","9",EnDash,"P","r","e","s","e","n","t"," ","c","\n">>

WholeDocs ==
  {SkillsTestText, ExperienceTestText, CountryTestText2, DateOnlyDoc, DateShortDoc}
    \cup { LongDoc(n) : n \in LongDocLengths }

DocInputs == {BufferInput, PathInput(TRUE, FALSE, ".pdf", <<>>)}

DocDecoderOutcomes ==
  { [throws |-> TRUE, error |-> Error(<<"Invalid PDF structure">>, ""), text |-> <<>>] }
    \cup { [throws |-> FALSE, error |-> NoError, text |-> d] : d \in WholeDocs }

DocNext ==
  \E r \in Runs :
    \/ StartOn(r, DocInputs) /\ UNCHANGED web
    \/ DecoderReturnsOn(r, DocDecoderOutcomes) /\ UNCHANGED web
    \/ ConcGeminiReturns(r)
    \/ ConcOpenAIReturns(r)

DocSpec == SoloInit /\ [][DocNext]_vars

\* ------------------------------------------------------ POST /upload/resume
\* One request to router.post('/resume') that passed authenticateToken and
\* upload.single('resume'): multer stored the file, if one was sent that
\* fileFilter lets through, under a name of its own. The handler awaits
\* parseResume, which is the invocation r1, then the two database writes.
UploadRequests == {"q1"}

\* The request as the handler receives it: req.file (present, and the
\* extension path.extname gave the stored name), and its history.
ReceivedUpload(present, ext) ==
  [pc |-> "received",       \* received, parsing, profile, user, done
   file |-> [present |-> present, ext |-> ext],
   parsedData |-> NoResult, \* const parsedData
   failed |-> "none",       \* history: the await that threw: parse, profile, user
   unlinks |-> 0,           \* history: calls of fs.unlinkSync
   responses |-> <<>>]      \* history: the status of each response sent

\* The file of every request that sent one was stored; it may be gone from
\* the directory by the time the handler runs.
UploadInit ==
  /\ env \in [OPENAI_API_KEY : BOOLEAN, GEMINI_API_KEY : BOOLEAN, PREFER_OPENAI : {FALSE}]
  /\ openai = 0
  /\ gemini = 0
  /\ constructed = [openai |-> 0, gemini |-> 0]
  /\ run = [r \in Runs |-> IdleRun]
  /\ requests \in [UploadRequests ->
                     {ReceivedUpload(FALSE, "")}
                       \cup { ReceivedUpload(TRUE, ext) : ext \in {".pdf", ".PDF", ".docx"} }]
  /\ files \in SUBSET { q \in UploadRequests : requests[q].file.present }
  /\ db = NoDb

\* res.status(status).json(...): the handler's run ends with it.
Respond(req, status) ==
  [req EXCEPT !.pc = "done", !.responses = Append(@, status)]

\* UploadCatch that leaves the stored file where it is.
UploadCatch_NoCleanup(q, failed) ==
  /\ requests' = [requests EXCEPT ![q] = Respond([@ EXCEPT !.failed = failed], 500)]
  /\ UNCHANGED files

\* The catch block of the handler: the stored file is removed if there is
\* one, and the response is 500.
UploadCatch(q, failed) ==
  LET stored == requests[q].file.present /\ q \in files
  IN /\ requests' = [requests EXCEPT ![q] =
                        Respond([@ EXCEPT !.failed = failed,
                                          !.unlinks = IF stored THEN @ + 1 ELSE @], 500)]
     /\ files' = IF stored THEN files \ {q} ELSE files

\* The handler starts: without a file it responds 400; with one it calls
\* parseResume(req.file.path), which runs to its first await.
UploadReceived(q) ==
  /\ requests[q].pc = "received"
  /\ IF ~ requests[q].file.present
     THEN /\ requests' = [requests EXCEPT ![q] = Respond(@, 400)]
          /\ UNCHANGED <<env, openai, gemini, constructed, run>>
     ELSE /\ requests' = [requests EXCEPT ![q].pc = "parsing"]
          /\ \E readable \in BOOLEAN :
               StartOn("r1", {PathInput(q \in files, readable /\ q \in files,
                                        requests[q].file.ext, <<>>)})
  /\ UNCHANGED <<files, db>>

\* The steps of parseResume while the handler awaits it.
UploadParsing(q) ==
  /\ requests[q].pc = "parsing"
  /\ \/ ConcDecoderReturns("r1")
     \/ ConcGeminiReturns("r1")
     \/ ConcOpenAIReturns("r1")

\* await parseResume(...) settles: a thrown error goes to the catch block; a
\* result is kept and Profile.findOneAndUpdate is awaited.
UploadParsed(q) ==
  /\ requests[q].pc = "parsing"
  /\ run["r1"].pc \in {"returned", "thrown"}
  /\ IF run["r1"].pc = "thrown"
     THEN UploadCatch(q, "parse")
     ELSE /\ requests' = [requests EXCEPT ![q].pc = "profile",
                                          ![q].parsedData = run["r1"].result]
          /\ UNCHANGED files
  /\ UNCHANGED <<env, openai, gemini, constructed, run, db>>

\* await Profile.findOneAndUpdate(...) settles: the profile is written and
\* User.findByIdAndUpdate is awaited, or the write failed.
UploadProfileSettled(q) ==
  /\ requests[q].pc = "profile"
  /\ \E written \in BOOLEAN :
       IF written
       THEN /\ db' = [db EXCEPT !.profileWrites = @ + 1]
            /\ requests' = [requests EXCEPT ![q].pc = "user"]
            /\ UNCHANGED files
       ELSE UploadCatch(q, "profile") /\ UNCHANGED db
  /\ UNCHANGED <<env, openai, gemini, constructed, run>>

\* await User.findByIdAndUpdate(...) settles: the response is sent, or the
\* write failed.
UploadUserSettled(q) ==
  /\ requests[q].pc = "user"
  /\ \E written \in BOOLEAN :
       IF written
       THEN /\ db' = [db EXCEPT !.userWrites = @ + 1]
            /\ requests' = [requests EXCEPT ![q] = Respond(@, 200)]
            /\ UNCHANGED files
       ELSE UploadCatch(q, "user") /\ UNCHANGED db
  /\ UNCHANGED <<env, openai, gemini, constructed, run>>

UploadNext ==
  \E q \in UploadRequests :
    \/ UploadReceived(q)
    \/ UploadParsing(q)
    \/ UploadParsed(q)
    \/ UploadProfileSettled(q)
    \/ UploadUserSettled(q)

UploadSpec == UploadInit /\ [][UploadNext]_vars

\* ------------------------------------------------- POST /saved-scholarships
\* Requests to router.post('/saved-scholarships') that passed
\* authenticateToken: req.user.id and req.body.scholarshipId are set. The
\* handlers of several requests interleave at their awaits.
SavedRequests == {"s1", "s2"}

UserIds == {"u1", "u2"}

ScholarshipIds == {"a", "b"}

\* new SavedScholarship({userId, scholarshipId, ...}) as the collection
\* holds it; the other fields play no part in the handler.
SavedEntry(userId, scholarshipId) ==
  [userId |-> userId, scholarshipId |-> scholarshipId]

ReceivedSave(userId, scholarshipId) ==
  [pc |-> "received",    \* received, finding, saving, done
   userId |-> userId,
   scholarshipId |-> scholarshipId,
   inserts |-> 0,        \* history: documents this request inserted
   responses |-> <<>>]   \* history: the status of each response sent

\* SavedScholarship.findOne({userId, scholarshipId}): a document or null.
Existing(saved, userId, scholarshipId) ==
  \E i \in 1..Len(saved) : saved[i] = SavedEntry(userId, scholarshipId)

\* The collection is empty or holds one entry already. The handler does not
\* say whether the collection has a unique index on (userId,
\* scholarshipId): both kinds of collection are started from.
SavedInit ==
  /\ env = [OPENAI_API_KEY |-> FALSE, GEMINI_API_KEY |-> FALSE, PREFER_OPENAI |-> FALSE]
  /\ openai = 0
  /\ gemini = 0
  /\ constructed = [openai |-> 0, gemini |-> 0]
  /\ run = [r \in Runs |-> IdleRun]
  /\ files = {}
  /\ requests \in [SavedRequests ->
                     { ReceivedSave(u, s) : u \in UserIds, s \in ScholarshipIds }]
  /\ \E uniqueIndex \in BOOLEAN, saved \in {<<>>, <<SavedEntry("u1", "a")>>} :
       db = [NoDb EXCEPT !.uniqueIndex = uniqueIndex, !.saved = saved]

\* The handler starts: SavedScholarship.findOne is issued and awaited.
SavedReceived(q) ==
  /\ requests[q].pc = "received"
  /\ requests' = [requests EXCEPT ![q].pc = "finding"]
  /\ UNCHANGED <<env, openai, gemini, constructed, run, files, db>>

\* await findOne settles: it threw (500), it found a document (400), or it
\* found none and saved.save() is issued and awaited.
SavedFindSettled(q) ==
  LET req == requests[q]
  IN /\ req.pc = "finding"
     /\ \E answered \in BOOLEAN :
          requests' = [requests EXCEPT ![q] =
            IF ~ answered THEN Respond(req, 500)
            ELSE IF Existing(db.saved, req.userId, req.scholarshipId)
                 THEN Respond(req, 400)
                 ELSE [req EXCEPT !.pc = "saving"]]
     /\ UNCHANGED <<env, openai, gemini, constructed, run, files, db>>

\* await saved.save() settles: the document was inserted (201) or the save
\* threw (500), as it does on a duplicate key where the collection has a
\* unique index.
SavedSaveSettled(q) ==
  LET req == requests[q]
      duplicateKey == db.uniqueIndex /\ Existing(db.saved, req.userId, req.scholarshipId)
  IN /\ req.pc = "saving"
     /\ \E written \in IF duplicateKey THEN {FALSE} ELSE BOOLEAN :
          IF written
          THEN /\ db' = [db EXCEPT !.saved =
                           Append(@, SavedEntry(req.userId, req.scholarshipId))]
               /\ requests' = [requests EXCEPT ![q] =
                                 Respond([req EXCEPT !.inserts = @ + 1], 201)]
          ELSE /\ requests' = [requests EXCEPT ![q] = Respond(req, 500)]
               /\ UNCHANGED db
     /\ UNCHANGED <<env, openai, gemini, constructed, run, files>>

SavedNext ==
  \E q \in SavedRequests :
    \/ SavedReceived(q)
    \/ SavedFindSettled(q)
    \/ SavedSaveSettled(q)

SavedSpec == SavedInit /\ [][SavedNext]_vars

\* -------------------------------------------------------- authenticateToken
\* A request to POST /resume from its arrival: authenticateToken, then
\* upload.single('resume'), then the handler. jwt.verify is given a callback
\* and a string secret: it calls the callback once, before it returns, with
\* an error or with the payload of the token.

\* req.headers['authorization'] when it is a string.
Header(value) == [set |-> TRUE, value |-> value]

\* req.headers['authorization']: undefined (set is FALSE), or a string.
AuthHeaders ==
  {[set |-> FALSE, value |-> <<>>],
   Header(<<>>),
   Header(<<"B">>),
   Header(<<"B", " ">>),
   Header(<<"g", "1">>),
   Header(<<"B", " ", "g", "1">>),
   Header(<<"B", " ", "g", "2">>),
   Header(<<"X", " ", "g", "1">>),
   Header(<<"B", " ", " ", "g", "1">>),
   Header(<<"B", " ", "g", "1", " ", "z">>),
   Header(<<"B", " ", "z", " ", "g", "1">>),
   Header(<<"B", " ", "z">>)}

\* authHeader.split(' ').
RECURSIVE SplitSpaces(_)
SplitSpaces(s) ==
  IF \E i \in 1..Len(s) : s[i] = " "
  THEN LET i == CHOOSE k \in 1..Len(s) :
                  s[k] = " " /\ \A m \in 1..(k - 1) : s[m] # " "
       IN <<SubSeq(s, 1, i - 1)>> \o SplitSpaces(SubSeq(s, i + 1, Len(s)))
  ELSE <<s>>

\* TokenOf that takes the whole header for the token.
TokenOf_WholeHeader(authHeader) ==
  [defined |-> authHeader.set, value |-> authHeader.value]

\* const token = authHeader && authHeader.split(' ')[1]: undefined for no
\* header, '' for an empty one, else the second piece, undefined if there
\* is none.
TokenOf(authHeader) ==
  IF ~ authHeader.set THEN [defined |-> FALSE, value |-> <<>>]
  ELSE IF authHeader.value = <<>> THEN [defined |-> TRUE, value |-> <<>>]
  ELSE LET pieces == SplitSpaces(authHeader.value)
       IN IF Len(pieces) >= 2 THEN [defined |-> TRUE, value |-> pieces[2]]
          ELSE [defined |-> FALSE, value |-> <<>>]

\* jwt.verify(token, SECRET, callback): the arguments the callback gets. The
\* tokens g1 and g2 are signed with SECRET and not expired; every other
\* string is rejected.
JwtVerify(token) ==
  IF token = <<"g", "1">> THEN [err |-> FALSE, user |-> [id |-> "u1"]]
  ELSE IF token = <<"g", "2">> THEN [err |-> FALSE, user |-> [id |-> "u2"]]
  ELSE [err |-> TRUE, user |-> [id |-> ""]]

\* The request as it arrives: its header and the extension of the file it
\* sends ("none": no file part).
ArrivedRequest(header, sent) ==
  [pc |-> "arrived",        \* arrived, authenticated, then as ReceivedUpload
   header |-> header,
   sent |-> sent,
   user |-> [id |-> ""],    \* req.user
   nextCalls |-> 0]         \* history: calls of next() by authenticateToken
    @@ ReceivedUpload(FALSE, "")

AuthInit ==
  /\ env = [OPENAI_API_KEY |-> FALSE, GEMINI_API_KEY |-> TRUE, PREFER_OPENAI |-> FALSE]
  /\ openai = 0
  /\ gemini = 0
  /\ constructed = [openai |-> 0, gemini |-> 0]
  /\ run = [r \in Runs |-> IdleRun]
  /\ requests \in [UploadRequests ->
                     { ArrivedRequest(h, sent) :
                         h \in AuthHeaders, sent \in {"none", ".pdf", ".PDF", ".txt"} }]
  /\ files = {}
  /\ db = NoDb

\* authenticateToken(req, res, next): 401 without a token, 403 when
\* jwt.verify hands the callback an error, else req.user = user; next().
authenticateToken(q) ==
  LET req == requests[q]
      token == TokenOf(req.header)
      verified == JwtVerify(token.value)
  IN /\ req.pc = "arrived"
     /\ requests' = [requests EXCEPT ![q] =
          IF ~ token.defined \/ token.value = <<>> THEN Respond(req, 401)
          ELSE IF verified.err THEN Respond(req, 403)
          ELSE [req EXCEPT !.user = verified.user,
                           !.nextCalls = @ + 1,
                           !.pc = "authenticated"]]
     /\ UNCHANGED <<env, openai, gemini, constructed, run, files, db>>

\* fileFilter: the extension of the original name, lowercased, is allowed.
fileFilter(ext) == LowerExt(ext) \in {".pdf", ".doc", ".docx"}

\* upload.single('resume'): no file part leaves req.file unset; a file that
\* fileFilter lets through and that is within limits is stored and becomes
\* req.file; otherwise the error goes to next(err), the handler is skipped
\* and the error handler of the application responds 500.
UploadSingle(q) ==
  LET req == requests[q]
  IN /\ req.pc = "authenticated"
     /\ \E withinLimits \in BOOLEAN :
          IF req.sent = "none"
          THEN /\ requests' = [requests EXCEPT ![q].pc = "received"]
               /\ UNCHANGED files
          ELSE IF fileFilter(req.sent) /\ withinLimits
          THEN /\ requests' = [requests EXCEPT
                                 ![q].pc = "received",
                                 ![q].file = [present |-> TRUE, ext |-> req.sent]]
               /\ files' = files \cup {q}
          ELSE /\ requests' = [requests EXCEPT ![q] = Respond(req, 500)]
               /\ UNCHANGED files
     /\ UNCHANGED <<env, openai, gemini, constructed, run, db>>

AuthNext ==
  \E q \in UploadRequests :
    \/ authenticateToken(q)
    \/ UploadSingle(q)
    \/ UploadReceived(q)
    \/ UploadParsing(q)
    \/ UploadParsed(q)
    \/ UploadProfileSettled(q)
    \/ UploadUserSettled(q)

AuthSpec == AuthInit /\ [][AuthNext]_vars

\* ------------------------------------------------------------------ claims
Returned(r) == run[r].pc = "returned"

Thrown(r) == run[r].pc = "thrown"

Finished(r) == Returned(r) \/ Thrown(r)

\* The labels declared in the countries mapping.
CountryLabels == { countries[i].label : i \in 1..Len(countries) }

\* The providers whose adapter has thrown in run r.
FailedProviders(r) == { run[r].failed[i].provider : i \in 1..Len(run[r].failed) }

\* The providers run r holds a client for.
ConfiguredProviders(r) == { p \in {"openai", "gemini"} : run[r].clients[p] # 0 }

\* The order of the providers that PREFER_OPENAI asks for.
PreferredOrder ==
  IF env.PREFER_OPENAI THEN <<"openai", "gemini">> ELSE <<"gemini", "openai">>

\* The value a run on the regex path has to return for its normalized text.
RegexReturn(r) ==
  extractWithRegex(run[r].text) @@ [text |-> Slice(run[r].text, 0, PreviewLen)]

\* Every character of s is white space.
IsBlank(s) == \A i \in 1..Len(s) : s[i] \in WhiteSpace

\* C1: every result parseResume returns, on every path and for every provider
\* answer, has a confidence that is an integer between 0 and 100.
C1_ConfidenceInRange ==
  \A r \in Runs :
    Returned(r) =>
      /\ run[r].result.confidence.k = "num"
      /\ run[r].result.confidence.n >= 0
      /\ run[r].result.confidence.n <= 100

\* C2: every result parseResume returns has a fieldOfStudy list of one or two
\* entries, and on the regex path it is ["General"] when no category matches.
C2_FieldOfStudyLength ==
  \A r \in Runs :
    Returned(r) =>
      /\ IsArray(run[r].result.fieldOfStudy)
      /\ Len(run[r].result.fieldOfStudy.a) >= 1
      /\ Len(run[r].result.fieldOfStudy.a) <= 2
      /\ (run[r].path = "regex" /\ FieldsOf(ToLowerCase(run[r].text)) = <<>>)
           => run[r].result.fieldOfStudy = Arr(<<Str("General")>>)

C4_RegexAfterProviderExhaustion ==
  \A r \in Runs :
    ( /\ Finished(r)
      /\ ConfiguredProviders(r) # {}
      /\ FailedProviders(r) = ConfiguredProviders(r) ) =>
        /\ Returned(r)
        /\ run[r].path = "regex"
        /\ run[r].result = RegexReturn(r)
        /\ "_fallback" \notin DOMAIN run[r].result
        /\ run[r].result.confidence.n >= RegexBaseConfidence

\* C4 witness: both adapters were entered and failed, and the run returned.
C4_Witness ==
  \E r \in Runs :
    /\ Returned(r)
    /\ ConfiguredProviders(r) = {"openai", "gemini"}
    /\ FailedProviders(r) = {"openai", "gemini"}

\* C5 as stated: the only errors parseResume throws are UnsupportedFormat and
\* EmptyDocument; a missing file and a decoder failure end in a returned result.
C5_OnlyTwoThrown ==
  \A r \in Runs :
    Thrown(r) => run[r].thrown \in {"UnsupportedFormat", "EmptyDocument"}

\* C5 as amended: parseResume throws only UnsupportedFormat, FileNotFound,
\* EmptyDocument, PdfParseFailed and DocxParseFailed; a missing file is
\* thrown as FileNotFound and a decoder failure as one of the last three;
\* once the orchestrator is reached (provider call failures, malformed
\* answers) nothing is thrown, and an unrecognized error is not thrown.
C5_ThrownKinds ==
  \A r \in Runs :
    /\ Thrown(r) =>
         run[r].thrown \in {"UnsupportedFormat", "FileNotFound", "EmptyDocument",
                            "PdfParseFailed", "DocxParseFailed"}
    /\ (run[r].pc # "idle" /\ ~ run[r].input.isBuffer /\ ~ run[r].input.exists) =>
         Thrown(r) /\ run[r].thrown = "FileNotFound"
    /\ (run[r].decoderCalls > 0 /\ Finished(r) /\ ~ run[r].decoded.settled) =>
         /\ Thrown(r)
         /\ run[r].thrown \in {"EmptyDocument", "PdfParseFailed", "DocxParseFailed"}
    /\ run[r].lookups > 0 => ~ Thrown(r)
    /\ (Finished(r) /\ run[r].failed # <<>>) => Returned(r)

\* C5 witness: a decoder failure is thrown as a parse failure.
C5_Witness ==
  \E r \in Runs :
    /\ Thrown(r)
    /\ run[r].decoderCalls > 0
    /\ ~ run[r].decoded.settled
    /\ run[r].thrown \in {"PdfParseFailed", "DocxParseFailed"}

\* C6: when the decoder returns an empty or white-space-only text, parseResume
\* throws EmptyDocument and never reaches the orchestrator: no client lookup,
\* no provider call, no extractWithRegex call.
C6_EmptyDocument ==
  \A r \in Runs :
    (run[r].decoded.settled /\ IsBlank(run[r].decoded.text)) =>
        /\ Thrown(r)
        /\ run[r].thrown = "EmptyDocument"
        /\ run[r].lookups = 0
        /\ run[r].calls = <<>>
        /\ run[r].regexCalls = 0

\* C6 witness: a decoder returned a non-empty text of white space only.
C6_Witness ==
  \E r \in Runs :
    /\ Thrown(r)
    /\ run[r].thrown = "EmptyDocument"
    /\ run[r].decoded.settled
    /\ run[r].decoded.text # <<>>
    /\ IsBlank(run[r].decoded.text)

\* C7 as stated: when the file extension is not a supported format,
\* parseResume throws UnsupportedFormat and calls no decoder, no provider and
\* not extractWithRegex.
C7_UnsupportedAlwaysThrown ==
  \A r \in Runs :
    ( /\ Finished(r)
      /\ ~ run[r].input.isBuffer
      /\ LowerExt(run[r].input.ext) \notin {".pdf", ".docx", ".doc"} ) =>
        /\ Thrown(r)
        /\ run[r].thrown = "UnsupportedFormat"
        /\ run[r].decoderCalls = 0
        /\ run[r].calls = <<>>
        /\ run[r].regexCalls = 0

\* C7 as amended: when the file extension is not a supported format,
\* parseResume calls no decoder, no provider and not extractWithRegex, and it
\* throws UnsupportedFormat provided the file exists and can be read (the
\* existence check and the read come before the format check).
C7_UnsupportedFormat ==
  \A r \in Runs :
    ( /\ run[r].pc # "idle"
      /\ ~ run[r].input.isBuffer
      /\ LowerExt(run[r].input.ext) \notin {".pdf", ".docx", ".doc"} ) =>
        /\ Finished(r)
        /\ run[r].decoderCalls = 0
        /\ run[r].lookups = 0
        /\ run[r].calls = <<>>
        /\ run[r].regexCalls = 0
        /\ (run[r].input.exists /\ run[r].input.readable) =>
             Thrown(r) /\ run[r].thrown = "UnsupportedFormat"

\* C7 witness: an existing, readable file of an unsupported type was refused.
C7_Witness ==
  \E r \in Runs :
    /\ Thrown(r)
    /\ run[r].thrown = "UnsupportedFormat"
    /\ run[r].input.ext = ".txt"
    /\ run[r].input.exists
    /\ run[r].input.readable

\* The phrases the catch block of parseResume looks for in a message.
RecognizedPhrases ==
  {"Unsupported file format", "File not found", "empty", "no extractable text",
   "PDF parsing failed", "DOCX parsing failed"}

\* The catch block received an error and its message holds none of the phrases.
CaughtUnrecognized(r) ==
  /\ run[r].caught # NoError
  /\ \A i \in 1..Len(run[r].caught.message) :
       run[r].caught.message[i] \notin RecognizedPhrases

\* C8: on a failure that is none of the recognized typed failures parseResume
\* does not throw and returns exactly the safe default (Bachelor's, ["General"],
\* International, no skills, no experience, confidence 30, _fallback true,
\* empty preview); and only such a run returns a result with _fallback.
C8_SafeDefault ==
  \A r \in Runs :
    /\ (Finished(r) /\ CaughtUnrecognized(r)) =>
         /\ Returned(r)
         /\ DOMAIN run[r].result =
              {"text", "educationLevel", "fieldOfStudy", "country", "skills",
               "experience", "confidence", "_fallback"}
         /\ run[r].result.text = <<>>
         /\ run[r].result.educationLevel = Str("Bachelor's")
         /\ run[r].result.fieldOfStudy = Arr(<<Str("General")>>)
         /\ run[r].result.country = Str("International")
         /\ run[r].result.skills = Arr(<<>>)
         /\ run[r].result.experience = Arr(<<>>)
         /\ run[r].result.confidence = Num(30)
         /\ run[r].result._fallback = TRUE
    /\ (Returned(r) /\ "_fallback" \in DOMAIN run[r].result) =>
         CaughtUnrecognized(r) /\ run[r].path = "fallback"

\* C8 witness: a file that exists but cannot be read gave the safe default.
C8_Witness ==
  \E r \in Runs :
    /\ Returned(r)
    /\ run[r].path = "fallback"
    /\ ~ run[r].input.readable

\* The position of a provider in the preferred order.
PreferredIndex(provider) == IF PreferredOrder[1] = provider THEN 1 ELSE 2

\* C9: within a run the adapters are attempted one after the other in the
\* configured order: calls of the second adapter come after all calls of the
\* first and only once the first has failed (or has no client); after an
\* adapter succeeded no later adapter and no regex engine is called and the
\* result is that adapter's; at most one provider call is in flight.
C9_SequentialInOrder ==
  \A r \in Runs :
    LET st == run[r] IN
    /\ Cardinality(st.inflight) <= 1
    /\ \A i, j \in 1..Len(st.calls) :
         i < j => PreferredIndex(st.calls[i].provider) <= PreferredIndex(st.calls[j].provider)
    /\ \A i \in 1..Len(st.calls) :
         st.calls[i].provider = PreferredOrder[2] =>
           \/ st.clients[PreferredOrder[1]] = 0
           \/ PreferredOrder[1] \in FailedProviders(r)
    /\ \A p \in {"openai", "gemini"} :
         (Returned(r) /\ st.path = p) =>
           /\ st.calls # <<>>
           /\ st.calls[Len(st.calls)].provider = p
           /\ p \notin FailedProviders(r)
           /\ st.regexCalls = 0
           /\ "education" \in DOMAIN st.result
           /\ "_fallback" \notin DOMAIN st.result
           /\ st.result.confidence =
                (IF Truthy(st.answer.confidence) THEN st.answer.confidence ELSE Num(70))
           /\ st.result.educationLevel =
                (IF Truthy(st.answer.educationLevel) THEN st.answer.educationLevel
                 ELSE Str("Bachelor's"))
           /\ IsArray(st.answer.skills) => st.result.skills = st.answer.skills
           /\ st.result.text = Slice(st.text, 0, PreviewLen)
    /\ st.regexCalls > 0 =>
         /\ st.inflight = {}
         /\ FailedProviders(r) = ConfiguredProviders(r)
    /\ st.inflight # {} => \E c \in st.inflight : c = st.calls[Len(st.calls)]

\* C9 witness: the first adapter failed and the second one gave the result.
C9_Witness ==
  \E r \in Runs :
    /\ Returned(r)
    /\ run[r].path = PreferredOrder[2]
    /\ FailedProviders(r) = {PreferredOrder[1]}
    /\ env.PREFER_OPENAI

\* The environment key that holds a provider's credentials.
KeySet(provider) ==
  IF provider = "openai" THEN env.OPENAI_API_KEY ELSE env.GEMINI_API_KEY

\* C10: a provider without credentials (without a client) is never called,
\* and when no provider is configured parseResume makes no provider call and
\* returns the output of extractWithRegex for the normalized text.
C10_UnconfiguredNeverCalled ==
  \A r \in Runs :
    /\ \A i \in 1..Len(run[r].calls) :
         /\ KeySet(run[r].calls[i].provider)
         /\ run[r].clients[run[r].calls[i].provider] # 0
    /\ ((~ env.OPENAI_API_KEY /\ ~ env.GEMINI_API_KEY) \/ ConfiguredProviders(r) = {}) =>
         /\ run[r].calls = <<>>
         /\ run[r].lookups > 0 =>
              /\ Returned(r)
              /\ run[r].path = "regex"
              /\ run[r].result = RegexReturn(r)

\* C10 witness: with no key in the environment the run returned the regex
\* output.
C10_Witness ==
  \E r \in Runs :
    /\ Returned(r)
    /\ ~ env.OPENAI_API_KEY
    /\ ~ env.GEMINI_API_KEY
    /\ run[r].path = "regex"
    /\ run[r].regexCalls = 1

\* The models run r has called of a provider, in the order of the calls.
RECURSIVE ModelsCalled(_, _)
ModelsCalled(calls, provider) ==
  IF calls = <<>> THEN <<>>
  ELSE IF Head(calls).provider = provider
  THEN <<Head(calls).model>> \o ModelsCalled(Tail(calls), provider)
  ELSE ModelsCalled(Tail(calls), provider)

\* s is an initial part of t.
IsPrefix(s, t) == Len(s) <= Len(t) /\ s = SubSeq(t, 1, Len(s))

\* The position in failed of the failure of a provider's adapter in run r.
FailureOf(r, provider) ==
  CHOOSE i \in 1..Len(run[r].failed) : run[r].failed[i].provider = provider

\* C11 as stated: each adapter calls its variants in declared order, goes on
\* to the next variant after a call that fails or an answer that does not
\* parse, so that an adapter fails only when all its variants were called,
\* and calls no variant after the one that gave the result.
C11_EveryFailureContinues ==
  \A r \in Runs : \A p \in {"openai", "gemini"} :
    /\ IsPrefix(ModelsCalled(run[r].calls, p), ModelsOf(p))
    /\ p \in FailedProviders(r) => ModelsCalled(run[r].calls, p) = ModelsOf(p)
    /\ (Returned(r) /\ run[r].path = p) =>
         run[r].calls[Len(run[r].calls)].provider = p

\* C11 as amended: each adapter calls its variants in declared order and
\* calls none after the one that gave the result. extractWithGemini goes on
\* to the next variant after any failure (a call that throws, an answer that
\* is not JSON or is null) and fails only after all four. extractWithOpenAI
\* calls gpt-3.5-turbo only when the gpt-4o-mini call failed with the code
\* model_not_found; after any other failure of the first call, an answer
\* that is not JSON included, it fails at once with that error.
C11_VariantsByAdapter ==
  \A r \in Runs :
    LET st == run[r] IN
    /\ \A p \in {"openai", "gemini"} :
         /\ IsPrefix(ModelsCalled(st.calls, p), ModelsOf(p))
         /\ (Returned(r) /\ st.path = p) => st.calls[Len(st.calls)].provider = p
         /\ st.pc = p =>
              /\ st.variant = Len(ModelsCalled(st.calls, p))
              /\ st.calls[Len(st.calls)] = [provider |-> p, model |-> ModelsOf(p)[st.variant]]
    /\ "gemini" \in FailedProviders(r) => ModelsCalled(st.calls, "gemini") = modelsToTry
    /\ (st.pc = "gemini" /\ st.variant > 1) => st.lastError # NoError
    /\ (st.pc = "openai" /\ st.variant = 2) => st.lastError.code = "model_not_found"
    /\ "openai" \in FailedProviders(r) =>
         LET f == st.failed[FailureOf(r, "openai")]
             n == Len(ModelsCalled(st.calls, "openai"))
         IN /\ n = 1 => f.error.code # "model_not_found"
            /\ f.error.code = "model_not_found" => n = 2

\* C11 witness: the OpenAI adapter failed on an answer that was not JSON
\* after a single call, and the Gemini adapter gave the result at its third
\* variant.
C11_Witness ==
  \E r \in Runs :
    /\ Returned(r)
    /\ run[r].path = "gemini"
    /\ ModelsCalled(run[r].calls, "gemini") = SubSeq(modelsToTry, 1, 3)
    /\ ModelsCalled(run[r].calls, "openai") = <<"gpt-4o-mini">>
    /\ "openai" \in FailedProviders(r)
    /\ run[r].failed[FailureOf(r, "openai")].error.message = <<"Unexpected token in JSON">>

\* The fields of an answer that are declared as arrays.
ArrayFields == {"education", "fieldOfStudy", "skills", "experience"}

\* Run r returned the result of a provider's adapter.
ProviderReturn(r) == Returned(r) /\ run[r].path \in {"gemini", "openai"}

\* C12 as stated: in the normalized result of an adapter every array-typed
\* field that arrived as a scalar string is the one-element array of that
\* string and every missing array-typed field is the empty list; a missing
\* educationLevel is "Bachelor's", a missing country "International" and a
\* missing confidence 70.
C12_ScalarsWrapped ==
  \A r \in Runs :
    ProviderReturn(r) =>
      LET parsed == run[r].answer
          result == run[r].result
      IN /\ \A f \in ArrayFields :
              /\ parsed[f].k = "str" => result[f] = Arr(<<parsed[f]>>)
              /\ parsed[f] = Undefined => result[f] = Arr(<<>>)
         /\ parsed.educationLevel = Undefined => result.educationLevel = Str("Bachelor's")
         /\ parsed.country = Undefined => result.country = Str("International")
         /\ parsed.confidence = Undefined => result.confidence = Num(70)

\* C12 as amended: in the normalized result of an adapter education, skills
\* and experience are the answer's value when that is an array and the empty
\* list otherwise (missing, or a scalar string, which is dropped);
\* fieldOfStudy is the answer's value when that is an array, the one-element
\* array of it when it is a non-empty scalar, and ["General"] when it is
\* missing or empty; educationLevel, country and confidence are the answer's
\* value when it is truthy and "Bachelor's", "International" and 70 otherwise.
C12_Normalized ==
  \A r \in Runs :
    ProviderReturn(r) =>
      LET parsed == run[r].answer
          result == run[r].result
      IN /\ \A f \in {"education", "skills", "experience"} :
              result[f] = (IF parsed[f].k = "arr" THEN parsed[f] ELSE Arr(<<>>))
         /\ result.fieldOfStudy =
              (IF parsed.fieldOfStudy.k = "arr" THEN parsed.fieldOfStudy
               ELSE IF Truthy(parsed.fieldOfStudy) THEN Arr(<<parsed.fieldOfStudy>>)
               ELSE Arr(<<Str("General")>>))
         /\ result.educationLevel =
              (IF Truthy(parsed.educationLevel) THEN parsed.educationLevel
               ELSE Str("Bachelor's"))
         /\ result.country =
              (IF Truthy(parsed.country) THEN parsed.country ELSE Str("International"))
         /\ result.confidence =
              (IF Truthy(parsed.confidence) THEN parsed.confidence ELSE Num(70))
         /\ parsed = EmptyAnswer =>
              /\ result.educationLevel = Str("Bachelor's")
              /\ result.country = Str("International")
              /\ result.confidence = Num(70)
              /\ result.fieldOfStudy = Arr(<<Str("General")>>)
              /\ result.skills = Arr(<<>>)

\* C12 witness: an adapter accepted an answer whose skills, education and
\* experience were scalar strings, and returned empty lists for them.
C12_Witness ==
  \E r \in Runs :
    /\ ProviderReturn(r)
    /\ run[r].answer.skills = Str("Go")
    /\ run[r].answer.experience = Str("Intern")
    /\ run[r].result.skills = Arr(<<>>)
    /\ run[r].result.experience = Arr(<<>>)

\* The module-level client of a provider, now and after the step.
ClientOf(provider) == IF provider = "openai" THEN openai ELSE gemini

ClientOfNext(provider) == IF provider = "openai" THEN openai' ELSE gemini'

\* C13: over concurrent invocations, in every interleaving, at most one
\* client of each provider is ever built (a constructor that throws builds
\* none); a client that exists is never replaced or reset to null; and an
\* invocation that looks the clients up receives the module-level instances
\* as they are after its lookup, so every lookup after a client exists
\* receives that same instance.
C13_ClientsBuiltOnce ==
  [][ \A p \in {"openai", "gemini"} :
        /\ constructed'[p] <= 1
        /\ ClientOfNext(p) \in {0, 1}
        /\ ClientOfNext(p) # 0 <=> constructed'[p] = 1
        /\ ClientOf(p) # 0 => ClientOfNext(p) = ClientOf(p)
        /\ \A r \in DOMAIN run :
             /\ (run[r].lookups = 0 /\ run'[r].lookups = 1) =>
                  /\ run'[r].clients[p] = ClientOfNext(p)
                  /\ ClientOf(p) # 0 => run'[r].clients[p] = ClientOf(p)
             /\ run[r].lookups = 1 => run'[r].clients = run[r].clients
             /\ run'[r].lookups <= 1
             /\ run'[r].clients[p] # 0 => run'[r].clients[p] = ClientOfNext(p)
    ]_vars

\* C13 witness: the first invocation's Gemini constructor threw, the second
\* invocation built the client while the first was still running, and later
\* calls of both providers were made with the single instances.
C13_Witness ==
  /\ run["r1"].lookups = 1
  /\ run["r2"].lookups = 1
  /\ run["r1"].clients = [openai |-> 1, gemini |-> 0]
  /\ run["r2"].clients = [openai |-> 1, gemini |-> 1]
  /\ constructed = [openai |-> 1, gemini |-> 1]
  /\ run["r1"].pc = "openai"
  /\ run["r2"].pc = "gemini"

\* What an invocation has received from outside: its argument, the decoder's
\* answer, the clients it was handed, and the answers to its provider calls.
Received(r) ==
  [input |-> run[r].input, decoded |-> run[r].decoded, caught |-> run[r].caught,
   clients |-> run[r].clients, calls |-> run[r].calls, failed |-> run[r].failed,
   answer |-> run[r].answer]

\* What an invocation hands back.
HandedBack(r) ==
  [result |-> run[r].result, thrown |-> run[r].thrown, path |-> run[r].path]

\* The outcome of a finished invocation follows from what it received.
OwnOutcome(r) ==
  LET st == run[r]
      preview == [text |-> Slice(st.text, 0, PreviewLen)]
  IN /\ \A i \in 1..Len(st.calls) : st.clients[st.calls[i].provider] # 0
     /\ st.decoded.settled /\ st.lookups > 0 => st.text = NormalizeText(st.decoded.text)
     /\ Thrown(r) =>
          st.thrown = ClassifyError(st.caught.message) /\ st.result = NoResult
     /\ (Returned(r) /\ st.path = "fallback") => st.result = SafeDefault
     /\ (Returned(r) /\ st.path = "regex") =>
          /\ st.result = extractWithRegex(st.text) @@ preview
          /\ FailedProviders(r) = ConfiguredProviders(r)
     /\ (Returned(r) /\ st.path = "gemini") =>
          st.result = GeminiResult(st.answer) @@ preview
     /\ (Returned(r) /\ st.path = "openai") =>
          st.result = OpenAIResult(st.answer) @@ preview

\* C14: concurrent invocations are independent. A step of one invocation
\* leaves the locals of every other invocation as they are; the outcome of
\* an invocation follows from its own argument, its decoder's answer, the
\* clients it was handed and the answers to its own provider calls; and two
\* invocations that received the same hand back the same, however their
\* steps were interleaved.
C14_RunsIndependent ==
  /\ [][ \A r \in DOMAIN run :
            run'[r] # run[r] => \A q \in (DOMAIN run) \ {r} : run'[q] = run[q] ]_vars
  /\ [](\A r \in DOMAIN run : OwnOutcome(r))
  /\ [](\A r, q \in DOMAIN run :
          (Finished(r) /\ Finished(q) /\ Received(r) = Received(q)) =>
            HandedBack(r) = HandedBack(q))

\* C14 witness: two invocations that decoded the same text both ran to the
\* end; one was handed no Gemini client (its constructor threw) and used
\* the regex engine, the other was handed one and returned Gemini's answer.
C14_Witness ==
  /\ Returned("r1") /\ Returned("r2")
  /\ run["r1"].decoded = run["r2"].decoded
  /\ run["r1"].clients = [openai |-> 0, gemini |-> 0]
  /\ run["r2"].clients = [openai |-> 0, gemini |-> 1]
  /\ run["r1"].path = "regex"
  /\ run["r2"].path = "gemini"
  /\ run["r1"].result.country = Str("Norway")

\* The most provider calls one invocation can make: every variant of both.
MaxProviderCalls == Len(modelsToTry) + Len(openaiModels)

\* C15: when every decoder call and every provider call settles, every
\* invocation of parseResume that has started completes, with a result or
\* with a typed error, and it makes at most as many provider calls as there
\* are variants: a failing call leads to the next variant, the next provider
\* or the regex engine.
C15_RunsComplete ==
  \A r \in Runs :
    /\ [](Len(run[r].calls) <= MaxProviderCalls)
    /\ [](Finished(r) => (Returned(r) /\ run[r].result # NoResult)
                         \/ (Thrown(r) /\ run[r].thrown # "none"))
    /\ (run[r].pc # "idle") ~> Finished(r)

\* C15 witness: an invocation completed on the regex engine after every
\* variant of both providers had failed.
C15_Witness ==
  \E r \in Runs :
    /\ Returned(r)
    /\ run[r].path = "regex"
    /\ Len(run[r].calls) = MaxProviderCalls
    /\ FailedProviders(r) = {"openai", "gemini"}

\* extractWithRegex was called directly in run r and has returned.
DirectReturn(r) == run[r].pc = "returned" /\ run[r].path = "direct"

\* The rows of a keyword table that have a keyword in the text, letter case
\* ignored.
Mentioned(text, table) ==
  LET textLower == ToLowerCase(text)
  IN { i \in 1..Len(table) :
         \E j \in 1..Len(table[i].keywords) : Includes(textLower, table[i].keywords[j]) }

\* C16: extractWithRegex takes the education level of the first pattern that
\* matches in the precedence PhD, Master's, Bachelor's, High School: a text
\* with a bachelor keyword and a PhD keyword gives "PhD", one with a bachelor
\* and a master keyword (and no PhD keyword) gives "Master's", one that
\* matches no pattern gives "Bachelor's".
C16_EducationPrecedence ==
  \A r \in Runs :
    DirectReturn(r) =>
      LET text == run[r].text
          level == run[r].result.educationLevel
          mentioned == Mentioned(text, educationPatterns)
          has(i) == i \in mentioned
      IN /\ [i \in 1..4 |-> educationPatterns[i].label]
              = <<"PhD", "Master's", "Bachelor's", "High School">>
         /\ \A i \in 1..4 :
              (has(i) /\ \A k \in 1..(i - 1) : ~ has(k)) =>
                level = Str(educationPatterns[i].label)
         /\ (has(3) /\ has(1)) => level = Str("PhD")
         /\ (has(3) /\ has(2) /\ ~ has(1)) => level = Str("Master's")
         /\ (\A i \in 1..4 : ~ has(i)) => level = Str("Bachelor's")

\* C16 witness: a text that names a bachelor degree first and a PhD below
\* it was classified as PhD.
C16_Witness ==
  \E r \in Runs :
    /\ DirectReturn(r)
    /\ run[r].text = JoinLines(<<ResumeParts[2], ResumeParts[1]>>)
    /\ 3 \in Mentioned(run[r].text, educationPatterns)
    /\ run[r].result.educationLevel = Str("PhD")

\* C17: extractWithRegex takes the country declared earliest in the mapping
\* among those with a keyword in the text, however many keywords of later
\* countries occur and wherever they stand; the texts of the tests give
\* "USA", "India" and "Germany"; a text with no keyword gives
\* "International".
C17_CountryFirstDeclared ==
  \A r \in Runs :
    DirectReturn(r) =>
      LET text == run[r].text
          country == run[r].result.country
          mentioned == Mentioned(text, countries)
          has(i) == i \in mentioned
      IN /\ \A i \in 1..Len(countries) :
              (has(i) /\ \A k \in 1..(i - 1) : ~ has(k)) =>
                country = Str(countries[i].label)
         /\ (\A i \in 1..Len(countries) : ~ has(i)) => country = Str("International")
         /\ text = CountryTestText1 => country = Str("USA")
         /\ text = CountryTestText2 => country = Str("India")
         /\ text = CountryTestText3 => country = Str("Germany")

\* C17 witness: a text with two keywords of Germany above one keyword of the
\* USA gave "USA".
C17_Witness ==
  \E r \in Runs :
    /\ DirectReturn(r)
    /\ run[r].text = JoinLines(<<ResumeParts[7], ResumeParts[5]>>)
    /\ run[r].result.country = Str("USA")

\* The date-range pattern matches somewhere in the line.
HasDateRange(line) == \E i \in 1..Len(line) : MatchEndAt(line, i) # 0

\* The positions of the lines with a date range, in the order of the text.
DateLines(lines) ==
  LET F[i \in 0..Len(lines)] ==
        IF i = 0 THEN <<>>
        ELSE IF HasDateRange(lines[i]) THEN Append(F[i - 1], i) ELSE F[i - 1]
  IN F[Len(lines)]

\* The whole of d is one match of the date-range pattern.
IsDateRange(d) == d # <<>> /\ MatchEndAt(d, 1) = Len(d) + 1

\* C18: extractWithRegex returns at most 3 experience entries: one for each
\* of the first three lines with a date range, in the order of the lines;
\* the duration of an entry is the part of its line that matched the
\* pattern, character for character (spacing and letter case kept); the
\* text of the test gives "2018 - 2020" and then "2020 - Present".
C18_ExperienceEntries ==
  \A r \in Runs :
    DirectReturn(r) =>
      LET lines == SplitLines(run[r].text)
          dated == DateLines(lines)
          experience == run[r].result.experience.a
      IN /\ Len(experience) <= 3
         /\ Len(experience) = (IF Len(dated) < 3 THEN Len(dated) ELSE 3)
         /\ \A k \in 1..Len(experience) :
              /\ IsDateRange(experience[k].duration)
              /\ Includes(lines[dated[k]], experience[k].duration)
              /\ \E i \in 1..Len(lines[dated[k]]) :
                   /\ MatchEndAt(lines[dated[k]], i) # 0
                   /\ \A m \in 1..(i - 1) : MatchEndAt(lines[dated[k]], m) = 0
                   /\ experience[k].duration =
                        SubSeq(lines[dated[k]], i, MatchEndAt(lines[dated[k]], i) - 1)
         /\ run[r].text = ExperienceTestText =>
              /\ Len(experience) = 2
              /\ experience[1].duration = <<"2","0","1","8"," ","-"," ","2","0","2","0">>
              /\ experience[2].duration =
                   <<"2","0","2","0"," ","-"," ","P","r","e","s","e","n","t">>

\* C18 witness: a text with five lines that hold a date range gave three
\* entries, the first with an en dash and taken from a line with two
\* ranges, and the last two lines were left out.
C18_Witness ==
  \E r \in Runs :
    /\ DirectReturn(r)
    /\ Len(DateLines(SplitLines(run[r].text))) = 5
    /\ Len(run[r].result.experience.a) = 3
    /\ run[r].result.experience.a[1].duration =
         <<"2","0","1","6",EnDash,"2","0","1","7">>
    /\ run[r].result.experience.a[3].duration =
         <<"2","0","1","1"," ","-"," ","2","0","1","2">>

\* C19: extractWithRegex reports a skill exactly when its vocabulary token
\* occurs in the lowercased text; a reported skill is the token with its
\* first character in upper case and the rest as in the vocabulary; the
\* skills follow the order of the vocabulary and none occurs twice.
C19_SkillsFromVocabulary ==
  \A r \in Runs :
    DirectReturn(r) =>
      LET textLower == ToLowerCase(run[r].text)
          skills == run[r].result.skills.a
          present == { i \in 1..Len(commonSkills) : Includes(textLower, commonSkills[i]) }
          pos(k) == CHOOSE i \in 1..Len(commonSkills) :
                      /\ ToLowerCase(skills[k]) = commonSkills[i]
                      /\ skills[k][1] = ToUpperChar(commonSkills[i][1])
                      /\ Tail(skills[k]) = Tail(commonSkills[i])
      IN /\ Len(skills) = Cardinality(present)
         /\ \A k \in 1..Len(skills) :
              /\ \E i \in present :
                   /\ skills[k][1] = ToUpperChar(commonSkills[i][1])
                   /\ Tail(skills[k]) = Tail(commonSkills[i])
         /\ \A k, m \in 1..Len(skills) :
              k < m => (skills[k] # skills[m] /\ pos(k) < pos(m))
         /\ Includes(run[r].text, <<"J","a","v","a","S","c","r","i","p","t">>) =>
              \E k \in 1..Len(skills) :
                skills[k] = <<"J","a","v","a","s","c","r","i","p","t">>
         /\ Includes(run[r].text, <<"M","o","n","g","o","D","B">>) =>
              \E k \in 1..Len(skills) : skills[k] = <<"M","o","n","g","o","d","b">>
         /\ Includes(run[r].text, <<"A","W","S">>) =>
              \E k \in 1..Len(skills) : skills[k] = <<"A","w","s">>

\* C19 witness: the text of the skills test gave Javascript, Mongodb and Aws
\* among its skills.
C19_Witness ==
  \E r \in Runs :
    /\ DirectReturn(r)
    /\ run[r].text = SkillsTestText
    /\ \E k \in 1..Len(run[r].result.skills.a) :
         run[r].result.skills.a[k] = <<"M","o","n","g","o","d","b">>
    /\ \E k \in 1..Len(run[r].result.skills.a) :
         run[r].result.skills.a[k] = <<"A","w","s">>
    /\ \E k \in 1..Len(run[r].result.skills.a) :
         run[r].result.skills.a[k] = <<"N","o","d","e",".","j","s">>

\* The extraction fields of a result: all its properties but the preview.
ExtractionFields(result) == [f \in (DOMAIN result) \ {"text"} |-> result[f]]

\* C20: the extraction fields of a returned result are, all of them, those
\* of one source: the normalized answer a provider's adapter accepted (then
\* the regex engine did not run), or the output of extractWithRegex for the
\* text (then no provider answer was accepted), or the safe default (then
\* neither an adapter nor the regex engine ran); the placeholder values
\* extractedData starts with never reach the result.
C20_SingleSource ==
  \A r \in Runs :
    Returned(r) =>
      LET st == run[r]
          fields == ExtractionFields(st.result)
      IN /\ st.path \in {"gemini", "openai", "regex", "fallback"}
         /\ st.path = "gemini" =>
              fields = GeminiResult(st.answer) /\ st.regexCalls = 0 /\ st.caught = NoError
         /\ st.path = "openai" =>
              fields = OpenAIResult(st.answer) /\ st.regexCalls = 0 /\ st.caught = NoError
         /\ st.path = "regex" =>
              /\ fields = extractWithRegex(st.text)
              /\ st.regexCalls = 1
              /\ st.answer = EmptyAnswer
              /\ st.caught = NoError
              /\ \A i \in 1..Len(st.calls) : st.calls[i].provider \in FailedProviders(r)
         /\ st.path = "fallback" =>
              /\ st.result = SafeDefault
              /\ st.regexCalls = 0
              /\ st.calls = <<>>
         /\ st.result.educationLevel # Null
         /\ st.result.country # Null
         /\ st.result.confidence # Num(0)

\* C20 witness: OpenAI failed, Gemini's answer was returned, and the regex
\* engine would have given another country and other skills for the text.
C20_Witness ==
  \E r \in Runs :
    /\ Returned(r)
    /\ run[r].path = "gemini"
    /\ "openai" \in FailedProviders(r)
    /\ run[r].result.country = Str("India")
    /\ extractWithRegex(run[r].text).country = Str("Norway")
    /\ run[r].result.skills = Arr(<<Str("Go")>>)
    /\ extractWithRegex(run[r].text).skills = Arr(<<>>)

\* The first n elements of a sequence s, all of s when it has fewer.
FirstOf(s, n) == [i \in 1..(IF Len(s) < n THEN Len(s) ELSE n) |-> s[i]]

\* C21: on every return of parseResume other than the safe default the text
\* preview is the first 2000 characters of the whitespace-normalized text of
\* the document (all of it when it is shorter); on the safe default it is empty.
C21_TextPreview ==
  \A r \in Runs :
    Returned(r) =>
      IF run[r].path = "fallback"
      THEN run[r].result.text = <<>>
      ELSE /\ run[r].decoded.settled
           /\ run[r].result.text = FirstOf(NormalizeText(run[r].decoded.text), 2000)

\* A run returns, not by the safe default, for a document whose normalized
\* text is longer than 2000 characters, and the preview is 2000 long.
C21_Witness ==
  \E r \in Runs :
    /\ Returned(r)
    /\ run[r].path \in {"gemini", "openai", "regex"}
    /\ Len(NormalizeText(run[r].decoded.text)) > 2000
    /\ Len(run[r].result.text) = 2000
    /\ Len(run[r].decoded.text) > Len(NormalizeText(run[r].decoded.text))

\* The providers that come after provider p in the preferred order.
LaterProviders(p) ==
  { PreferredOrder[k] : k \in (IndexOf(PreferredOrder, p) + 1)..Len(PreferredOrder) }

\* C22: an adapter that fails has called its variants and fails with the
\* error of the last call it made; parseResume never throws after an
\* adapter failed and its catch block never receives that error: it awaits
\* the next adapter or returns what a later adapter or the regex engine gave.
C22_AdapterFailureAbsorbed ==
  \A r \in Runs :
    LET st == run[r] IN
    \A i \in 1..Len(st.failed) :
      LET f == st.failed[i]
          called == ModelsCalled(st.calls, f.provider)
      IN /\ called # <<>>
         /\ f.provider = "gemini" => called = modelsToTry
         /\ f.error # NoError
         /\ st.pc # "thrown"
         /\ st.thrown = "none"
         /\ st.caught = NoError
         /\ \/ st.pc \in LaterProviders(f.provider)
            \/ Returned(r) /\ st.path \in LaterProviders(f.provider) \cup {"regex"}
         /\ (Returned(r) /\ st.path = "regex") => st.regexCalls = 1
         /\ (/\ i = Len(st.failed)
             /\ \/ Returned(r) /\ st.path = "regex"
                \/ st.pc \in {"openai", "gemini"} /\ st.variant = 1) =>
              f.error = st.callError

\* Both adapters failed, Gemini on an answer that was not JSON, OpenAI with
\* the error of its retry, and the run returned what the regex engine gave.
C22_Witness ==
  \E r \in Runs :
    /\ Returned(r)
    /\ run[r].path = "regex"
    /\ Len(run[r].failed) = 2
    /\ run[r].failed[1].provider = "gemini"
    /\ run[r].failed[1].error.message = <<"Invalid JSON response from Gemini">>
    /\ run[r].failed[2].provider = "openai"
    /\ ModelsCalled(run[r].calls, "openai") = openaiModels
    /\ run[r].failed[2].error = run[r].callError
    /\ run[r].failed[2].error.message = <<"fetch failed">>

\* C23: the confidence extractWithRegex returns is 50, plus 10 when the
\* education level it returns is not "Bachelor's", plus 20 when a field of
\* study category has a keyword in the text, plus 10 when the country it
\* returns is not "International", plus 10 when it returns a skill; it is one
\* of 50, 60, 70, 80, 90, 100.
C23_RegexConfidence ==
  \A r \in Runs :
    DirectReturn(r) =>
      LET result == run[r].result
          bonus(signal, points) == IF signal THEN points ELSE 0
      IN /\ result.confidence.k = "num"
         /\ result.confidence.n =
              50 + bonus(result.educationLevel # Str("Bachelor's"), 10)
                 + bonus(Mentioned(run[r].text, fieldKeywords) # {}, 20)
                 + bonus(result.country # Str("International"), 10)
                 + bonus(Len(result.skills.a) > 0, 10)
         /\ result.confidence.n \in {50, 60, 70, 80, 90, 100}
         /\ result.confidence.n <= 100

\* C23 witness: a text with a PhD, a field of study, a city and skills gave
\* the confidence 100.
C23_Witness ==
  \E r \in Runs :
    /\ DirectReturn(r)
    /\ run[r].result.educationLevel = Str("PhD")
    /\ run[r].result.fieldOfStudy = Arr(<<Str("Science")>>)
    /\ run[r].result.country = Str("Norway")
    /\ Len(run[r].result.skills.a) >= 3
    /\ run[r].result.confidence = Num(100)

\* The lines of a text in the opposite order.
ReverseLines(text) ==
  LET lines == SplitLines(text)
  IN JoinLines([i \in 1..Len(lines) |-> lines[Len(lines) + 1 - i]])

\* The labels of the first n rows, in declaration order, among the rows of
\* a keyword table in the set rows.
FirstLabels(table, rows, n) ==
  LET F[i \in 0..Len(table)] ==
        IF i = 0 THEN <<>>
        ELSE IF i \in rows /\ Len(F[i - 1]) < n
             THEN Append(F[i - 1], Str(table[i].label))
             ELSE F[i - 1]
  IN F[Len(table)]

\* The fieldOfStudy that extractWithRegex returns for a text.
FieldOfStudyOf(text) == Arr(StrSeq(RegexFieldOfStudy(FieldsOf(ToLowerCase(text)))))

\* C24: the fieldOfStudy extractWithRegex returns for a text with a keyword
\* of some category is the first two categories, in the order the mapping
\* declares them, that have a keyword in the lowercased text (one category
\* when only one has); the same text with its lines in the opposite order,
\* or written twice, gives the same categories.
C24_FirstTwoCategories ==
  \A r \in Runs :
    DirectReturn(r) =>
      LET text == run[r].text
          mentioned == Mentioned(text, fieldKeywords)
          fieldOfStudy == run[r].result.fieldOfStudy
      IN /\ [i \in 1..Len(fieldKeywords) |-> fieldKeywords[i].label]
              = <<"Computer Science", "Engineering", "Data Science", "Business",
                  "Medicine", "Science", "Arts", "Law">>
         /\ mentioned # {} =>
              /\ fieldOfStudy = Arr(FirstLabels(fieldKeywords, mentioned, 2))
              /\ Len(fieldOfStudy.a) = (IF Cardinality(mentioned) = 1 THEN 1 ELSE 2)
         /\ FieldOfStudyOf(ReverseLines(text)) = fieldOfStudy
         /\ FieldOfStudyOf(text \o <<"\n">> \o text) = fieldOfStudy

\* C24 witness: a text that names Arts on its first line and Health and Law
\* on its second gave Medicine and Arts, in the order of the mapping.
C24_Witness ==
  \E r \in Runs :
    /\ DirectReturn(r)
    /\ run[r].text = JoinLines(<<ResumeParts[2], ResumeParts[3]>>)
    /\ Cardinality(Mentioned(run[r].text, fieldKeywords)) = 3
    /\ run[r].result.fieldOfStudy = Arr(<<Str("Medicine"), Str("Arts")>>)

\* The company as stated for the line lines[i] that holds a date range: the
\* line without its date ranges, trimmed, when that is longer than 3
\* characters; else the line before it, trimmed, when there is one and it is
\* longer than 3 characters; else "Unknown Company".
StatedCompany(lines, i) ==
  LET rest == Trim(RemoveMatches(lines[i]))
      before == IF i > 1 THEN Trim(lines[i - 1]) ELSE <<>>
  IN IF Len(rest) > 3 THEN rest
     ELSE IF Len(before) > 3 THEN before
     ELSE <<"U","n","k","n","o","w","n"," ","C","o","m","p","a","n","y">>

\* C25 as stated: the company of every experience entry is the stated
\* company of its line, whole; the position is "Unknown Position".
C25_CompanyWhole ==
  \A r \in Runs :
    DirectReturn(r) =>
      LET lines == SplitLines(run[r].text)
          dated == DateLines(lines)
          experience == run[r].result.experience.a
      IN \A k \in 1..Len(experience) :
           /\ experience[k].company = StatedCompany(lines, dated[k])
           /\ experience[k].position = "Unknown Position"

\* C25 as amended: the company of every experience entry is the first 50
\* characters of the stated company of its line (all of it when it is no
\* longer than 50 characters); the position is "Unknown Position".
C25_CompanyCut ==
  \A r \in Runs :
    DirectReturn(r) =>
      LET lines == SplitLines(run[r].text)
          dated == DateLines(lines)
          experience == run[r].result.experience.a
      IN \A k \in 1..Len(experience) :
           /\ experience[k].company = FirstOf(StatedCompany(lines, dated[k]), 50)
           /\ Len(experience[k].company) <= 50
           /\ experience[k].position = "Unknown Position"

\* C25 witness: one text gave an entry whose company is the first 50
\* characters of the rest of its line, which is longer, an entry whose line
\* holds nothing but the date range and whose company is taken from the line
\* before it, and an entry whose company is the 4 characters its line leaves.
C25_Witness ==
  \E r \in Runs :
    LET experience == run[r].result.experience.a
        lines == SplitLines(run[r].text)
    IN /\ DirectReturn(r)
       /\ run[r].text = JoinLines(<<ResumeParts[9], ResumeParts[11]>>)
       /\ Len(experience) = 3
       /\ Len(Trim(RemoveMatches(lines[1]))) > 50
       /\ Len(experience[1].company) = 50
       /\ experience[1].company = SubSeq(lines[1], 1, 50)
       /\ Trim(RemoveMatches(lines[2])) = <<>>
       /\ experience[2].company = SubSeq(lines[1], 1, 50)
       /\ experience[3].company = <<"A","c","m","e">>

\* The text of run r, which returned on the regex path, is the decoded
\* document with every run of white space collapsed to one space: it has no
\* line break, and the experience list has at most one entry, whose
\* duration is the first date range of the text.
OneLineExperience(r) ==
  LET text == run[r].text
      experience == run[r].result.experience.a
  IN /\ text = NormalizeText(run[r].decoded.text)
     /\ \A i \in 1..Len(text) :
          /\ text[i] \notin {"\n", "\t"}
          /\ (i > 1 /\ text[i] = " ") => text[i - 1] # " "
     /\ Len(SplitLines(text)) = 1
     /\ Len(experience) <= 1
     /\ Len(experience) = 1 <=> HasDateRange(text)
     /\ Len(experience) = 1 =>
          \E i \in 1..Len(text) :
            /\ MatchEndAt(text, i) # 0
            /\ \A m \in 1..(i - 1) : MatchEndAt(text, m) = 0
            /\ experience[1].duration = SubSeq(text, i, MatchEndAt(text, i) - 1)

\* C26 as stated: on the regex path the engine sees one line, returns at
\* most one experience entry, its duration is the first date range of the
\* document and its company is the rest of the text cut to 50 characters.
C26_CompanyIsRestOfText ==
  \A r \in Runs :
    (Returned(r) /\ run[r].path = "regex") =>
      /\ OneLineExperience(r)
      /\ Len(run[r].result.experience.a) = 1 =>
           run[r].result.experience.a[1].company =
             FirstOf(Trim(RemoveMatches(run[r].text)), 50)

\* C26 as amended: as stated, except that the company is "Unknown Company"
\* when the text without its date ranges, trimmed, has 3 characters or fewer.
C26_SingleLineOnRegexPath ==
  \A r \in Runs :
    (Returned(r) /\ run[r].path = "regex") =>
      /\ OneLineExperience(r)
      /\ Len(run[r].result.experience.a) = 1 =>
           LET rest == Trim(RemoveMatches(run[r].text))
           IN run[r].result.experience.a[1].company =
                IF Len(rest) > 3 THEN FirstOf(rest, 50)
                ELSE <<"U","n","k","n","o","w","n"," ","C","o","m","p","a","n","y">>

\* C26 witness: the document of the experience test, which has two date
\* ranges on lines of their own, went down the regex path and gave one
\* entry: the first range, with the first 50 characters of the rest of the
\* document as company.
C26_Witness ==
  \E r \in Runs :
    /\ Returned(r)
    /\ run[r].path = "regex"
    /\ run[r].decoded.text = ExperienceTestText
    /\ Len(DateLines(SplitLines(run[r].decoded.text))) = 2
    /\ Len(run[r].result.experience.a) = 1
    /\ run[r].result.experience.a[1].duration =
         <<"2","0","1","8"," ","-"," ","2","0","2","0">>
    /\ Len(run[r].result.experience.a[1].company) = 50
    /\ IsPrefix(<<"J","a","n","e"," ","D","o","e"," ","E","x","p","e","r","i","e","n","c","e">>,
                run[r].result.experience.a[1].company)

\* C27: in extractWithRegex every test of a line starts with lastIndex 0; a
\* line is tested when fewer than 3 entries were pushed before it, and a
\* tested line gives an entry exactly when it holds a date range, the entry
\* it would give as the only line of a text; so the entries are those of
\* the first 3 lines that hold a date range, in the order of the lines.
C27_LinesTestedAlone ==
  \A r \in Runs :
    DirectReturn(r) =>
      LET lines == SplitLines(run[r].text)
          dated == DateLines(lines)
          experience == run[r].result.experience.a
          tested == ExperienceLoop(lines, 1, 0, <<>>).tested
          alone(i) == ExperienceOf(lines[i])
      IN /\ \A i \in 1..Len(tested) : tested[i] = 0
         /\ Len(tested) = (IF Len(dated) < 3 THEN Len(lines) ELSE dated[3])
         /\ Len(experience) = (IF Len(dated) < 3 THEN Len(dated) ELSE 3)
         /\ \A i \in 1..Len(lines) :
              Len(alone(i)) = (IF HasDateRange(lines[i]) THEN 1 ELSE 0)
         /\ \A k \in 1..Len(experience) :
              experience[k].duration = alone(dated[k])[1].duration
         /\ run[r].text = ExperienceTestText =>
              /\ Len(experience) >= 2
              /\ experience[1].duration = <<"2","0","1","8"," ","-"," ","2","0","2","0">>
              /\ experience[2].duration =
                   <<"2","0","2","0"," ","-"," ","P","r","e","s","e","n","t">>

\* C27 witness: a line whose date range ends at its 9th character is
\* followed by a line whose date range starts at its first; both gave an
\* entry, as did the line after them.
C27_Witness ==
  \E r \in Runs :
    LET lines == SplitLines(run[r].text) IN
    /\ DirectReturn(r)
    /\ run[r].text = ResumeParts[11]
    /\ RegexTest(lines[1], 0) = [found |-> TRUE, lastIndex |-> 9]
    /\ ~ RegexTest(lines[2], 9).found
    /\ RegexTest(lines[2], 0).found
    /\ Len(run[r].result.experience.a) = 3
    /\ run[r].result.experience.a[2].duration =
         <<"2","0","1","1"," ","-"," ","2","0","1","2">>

\* C28: in one run of parseResume the calls of a provider are consecutive
\* and go through the variants of its adapter from the first on, each at
\* most once, so that each adapter is entered at most once and fails at most
\* once; there are at most 4 Gemini calls, at most 2 OpenAI calls and at
\* most 6 calls in all; extractWithRegex is called at most once, and only
\* when every provider the run holds a client for has failed.
C28_BoundedWork ==
  \A r \in Runs :
    LET st == run[r]
        of(p) == ModelsCalled(st.calls, p)
    IN /\ \A p \in {"openai", "gemini"} :
            /\ IsPrefix(of(p), ModelsOf(p))
            /\ Cardinality({ i \in 1..Len(st.failed) : st.failed[i].provider = p }) <= 1
            /\ \A i, k \in 1..Len(st.calls) :
                 (i < k /\ st.calls[i].provider = p /\ st.calls[k].provider = p) =>
                   \A j \in i..k : st.calls[j].provider = p
            /\ of(p) # <<>> => st.clients[p] # 0
       /\ Len(of("gemini")) <= 4
       /\ Len(of("openai")) <= 2
       /\ Len(st.calls) <= 6
       /\ Cardinality(st.inflight) <= 1
       /\ st.regexCalls <= 1
       /\ st.regexCalls = 1 =>
            /\ ConfiguredProviders(r) \subseteq FailedProviders(r)
            /\ Returned(r)
            /\ st.path = "regex"
            /\ st.inflight = {}

\* C28 witness: a run made 4 Gemini calls and 2 OpenAI calls, both adapters
\* failed, and it called extractWithRegex once.
C28_Witness ==
  \E r \in Runs :
    /\ ModelsCalled(run[r].calls, "gemini") = modelsToTry
    /\ ModelsCalled(run[r].calls, "openai") = openaiModels
    /\ Len(run[r].calls) = 6
    /\ FailedProviders(r) = {"openai", "gemini"}
    /\ run[r].regexCalls = 1

\* C29: in the POST /resume handler, a failure after the upload was stored
\* (parseResume threw, or the profile or the user write failed) leaves the
\* stored file deleted and the response 500; the profile is written only
\* after parseResume returned a result; the success path keeps the file and
\* sends exactly one response; no request is answered twice.
C29_UploadFailureCleansUp ==
  /\ [](\A q \in UploadRequests :
          LET req == requests[q]
          IN /\ Len(req.responses) <= 1
             /\ req.pc = "done" <=> Len(req.responses) = 1
             /\ req.failed # "none" =>
                  /\ req.file.present
                  /\ q \notin files
                  /\ req.responses = <<500>>
             /\ req.failed = "parse" <=> (req.pc = "done" /\ Thrown("r1"))
             /\ (db.profileWrites > 0 \/ req.pc \in {"profile", "user"}) =>
                  /\ Returned("r1")
                  /\ req.parsedData = run["r1"].result
                  /\ req.parsedData # NoResult
             /\ db.profileWrites <= 1
             /\ db.userWrites <= db.profileWrites
             /\ req.responses = <<200>> =>
                  /\ req.failed = "none"
                  /\ req.unlinks = 0
                  /\ db.profileWrites = 1 /\ db.userWrites = 1)
  /\ [][\A q \in UploadRequests :
          /\ requests'[q].failed = "none" => files' = files
          /\ files' \subseteq files
          /\ requests'[q].unlinks - requests[q].unlinks = Cardinality(files \ files')]_vars

\* C29 witness: the profile was written, the user write failed, and the
\* handler removed the stored file, which was still there, and responded 500.
C29_Witness ==
  \E q \in UploadRequests :
    /\ requests[q].failed = "user"
    /\ requests[q].unlinks = 1
    /\ db.profileWrites = 1
    /\ db.userWrites = 0
    /\ requests[q].responses = <<500>>
    /\ q \notin files

\* C30: for any interleaving of POST /saved-scholarships requests, the
\* collection never holds two entries for one (userId, scholarshipId) pair,
\* and the requests for one pair that was new perform at most one insert
\* between them.
C30_NoDuplicateSaved ==
  /\ \A i, j \in 1..Len(db.saved) : db.saved[i] = db.saved[j] => i = j
  /\ \A p, q \in SavedRequests :
       (/\ p # q
        /\ requests[p].userId = requests[q].userId
        /\ requests[p].scholarshipId = requests[q].scholarshipId) =>
         requests[p].inserts + requests[q].inserts <= 1

\* The token a header carries: the piece after the scheme and one space;
\* <<>> if the header is missing or has no such piece.
Carried(header) ==
  IF header.set /\ Len(SplitSpaces(header.value)) >= 2
  THEN SplitSpaces(header.value)[2]
  ELSE <<>>

\* Nothing behind authenticateToken has acted for the request.
Untouched(q) ==
  /\ requests[q].nextCalls = 0
  /\ ~ requests[q].file.present
  /\ requests[q].failed = "none"
  /\ run["r1"] = IdleRun
  /\ files = {}
  /\ db = NoDb

\* C31: what is placed behind authenticateToken runs only for a request
\* whose Authorization header carries a token that jwt.verify accepts, and
\* req.user is then the verified payload; a request without a token is
\* answered 401 and one with a rejected token 403, each with one response,
\* next() never called and the handler never run.
C31_HandlerOnlyBehindVerifiedToken ==
  \A q \in UploadRequests :
    LET req == requests[q]
        token == Carried(req.header)
        verified == JwtVerify(token)
    IN /\ Len(req.responses) <= 1
       /\ req.nextCalls <= 1
       /\ req.pc = "arrived" => (Untouched(q) /\ req.responses = <<>>)
       /\ (req.pc # "arrived" /\ token = <<>>) =>
            (req.pc = "done" /\ req.responses = <<401>> /\ Untouched(q))
       /\ (req.pc # "arrived" /\ token # <<>> /\ verified.err) =>
            (req.pc = "done" /\ req.responses = <<403>> /\ Untouched(q))
       /\ (req.nextCalls > 0 \/ ~ Untouched(q)
             \/ req.pc \in {"authenticated", "received", "parsing", "profile", "user"}) =>
            /\ req.nextCalls = 1
            /\ token # <<>>
            /\ ~ verified.err
            /\ req.user = verified.user
            /\ req.responses \notin {<<401>>, <<403>>}

\* C31 witness: a request whose header carries the accepted token g2 passed
\* authenticateToken, and the handler is awaiting parseResume with req.user
\* the payload of g2.
C31_Witness ==
  \E q \in UploadRequests :
    /\ Carried(requests[q].header) = <<"g", "2">>
    /\ requests[q].pc = "parsing"
    /\ requests[q].user = [id |-> "u2"]
    /\ requests[q].nextCalls = 1
    /\ run["r1"] # IdleRun

=============================================================================
